---- MODULE Spec2Model ----
(***************************************************************************)
(* TacticalLink secure message lifecycle: the MessageScheduler             *)
(* (message_scheduler.py), the message operations of Database              *)
(* (database.py) and the request handlers of app.py that create, read and  *)
(* destroy messages.                                                       *)
(*                                                                         *)
(* Threads: the scheduler loop and the cleanup loop started by             *)
(* MessageScheduler.start(), and request-handling contexts.  One action is *)
(* one access to shared state (a document operation on the store, or an    *)
(* access to the in-memory cache) together with the thread-local code      *)
(* around it; the insert of an audit record, which nothing in the program  *)
(* reads back, is taken together with the access before it.                *)
(*                                                                         *)
(* The specifications share the actions.  In Spec the operations (a        *)
(* request, a pass over the cache, a sweep) run one at a time, each to its *)
(* end.  In ConcSpec the threads interleave at every action, as the        *)
(* program's threads do: it has no lock.  LiveSpec is Spec with the        *)
(* progress of the threads.  ReadSpec adds the reads of a conversation,    *)
(* KeyFaultSpec stored session keys that are not key strings, and          *)
(* StoreFaultSpec outages of the store (StoreFaultLiveSpec with progress). *)
(* KeySpec is the life of the session-key documents and PfsSpec that of    *)
(* the ephemeral keys of PerfectForwardSecrecy, which no message operation *)
(* touches.  HybridSpec takes one message through encrypt_message and      *)
(* decrypt_message at the level of bytes, and QueueSpec applies            *)
(* get_destruction_queue, and InboxSpec receive_messages, to any store of  *)
(* messages.                                                               *)
(* SchedulerLiveSpec is LiveSpec with the progress of the scheduler loop   *)
(* as well.  LoopSpec is start() and stop() with the threads they create,  *)
(* and RoomSpec the requests that create and join chat rooms.              *)
(*                                                                         *)
(* Time is datetime.utcnow() in whole units; optional fields (destruct_at, *)
(* deleted_at: None or a datetime) are the empty set or a singleton.       *)
(***************************************************************************)
EXTENDS Integers, Sequences, FiniteSets, TLC

\* ---- bounds of the model
NumMsgs == 2
MaxTime == 2
MaxRequests == 2
MaxReads == 1
MaxOutages == 1
NumKeys == 2
MaxEphemeral == 2
MaxPlain == 2
KeyEdge == 3
MaxCalls == 3
MaxStarts == 2
NumRooms == 1
MaxRoomSize == 2

MsgIds == 1..NumMsgs
Users == {"u1", "u2"}
\* the messages of the model go from Sender to Recipient
Sender == "u1"
Recipient == "u2"
Requests == {"r1", "r2"}
KeyIds == 1..NumKeys
\* the identities of the tokens: the users of the model and one more account
Identities == Users \cup {"u3"}
Sessions == {"s1", "s2"}
Background == {"scheduler", "cleanup"}
Threads == Background \cup Requests
\* the integer deltas handed to schedule_destruction
Deltas == {0 - 1, 1}
\* self_destruct_time of /chat/send: 0 = no self-destruct
SendTimes == {0, 1}

VARIABLES
    now,                \* datetime.utcnow()
    running,            \* MessageScheduler.running
    users,              \* db.users: ids of the stored users
    messages,           \* db.messages: id -> document
    scheduled_messages, \* MessageScheduler.scheduled_messages (insertion-ordered dict)
    system_logs,        \* db.system_logs: the destruction audit records
    destroy_key_calls,  \* per message: the callers of EncryptionManager.destroy_key on its
                        \* session key, in the order of the calls
    th,                 \* per thread: position and locals
    issued,             \* requests issued so far, get_conversation apart
    reads,              \* get_conversation requests issued so far
    db_up,              \* the MongoDB server is reachable
    outages,            \* the outages of the server so far
    session_keys,       \* db.session_keys: key_id -> document
    pfs,                \* PerfectForwardSecrecy.session_keys: per session id, the
                        \* ephemeral key held for it, if any
    pfs_made,           \* the ephemeral keys generated so far
    pfs_destroyed,      \* the session ids whose key destroy_session_key has removed
    pfs_sent,           \* the ciphertexts encrypt_with_ephemeral_key has returned
    pfs_ret,            \* the last call of PerfectForwardSecrecy and its outcome
    gcm,                \* the AES-GCM encryptions the library has made
    oaep,               \* the RSA-OAEP encryptions the library has made
    exchange,           \* one message through encrypt_message and decrypt_message
    queue,              \* what get_destruction_queue returned last
    opened,             \* per message: the endpoints that returned its plaintext to
                        \* its recipient, in the order of the responses
    loop_threads,       \* the threads start() has created, in the order of their
                        \* creation: the loop each one runs and its position
    start_pc,           \* per caller of start(): its position in start()
    starts,             \* the calls of start() so far
    chat_rooms,         \* db.chat_rooms: room id -> document
    join                \* per request context: its position in a join request, and
                        \* the user and the room of the request

vars == <<now, running, users, messages, scheduled_messages, system_logs,
          destroy_key_calls, th, issued, reads, db_up, outages, opened,
          session_keys, pfs, pfs_made, pfs_destroyed, pfs_sent, pfs_ret,
          gcm, oaep, exchange, queue, loop_threads, start_pc, starts,
          chat_rooms, join>>

\* the variables of PerfectForwardSecrecy, and those of the library's ciphers
pfsvars == <<pfs, pfs_made, pfs_destroyed, pfs_sent, pfs_ret>>
libvars == <<gcm, oaep>>

\* the threads of start() and stop(), and the chat rooms
loopvars == <<loop_threads, start_pc, starts>>
roomvars == <<chat_rooms, join>>

\* the variables of the keys and the ciphers and of get_destruction_queue,
\* which the operations on the messages leave alone
keyvars == <<session_keys, pfsvars, libvars, exchange, queue, loopvars, roomvars>>

\* the variables of the messaging
msgvars == <<users, messages, scheduled_messages, system_logs, destroy_key_calls,
             issued, reads, db_up, outages, opened>>

\* ---- documents
NoMessage ==
    [st |-> "none", sender_id |-> "", recipient_id |-> "", content |-> <<>>,
     original_content |-> <<>>, session_key |-> <<>>, self_destruct_time |-> 0,
     read_once |-> FALSE,
     timestamp |-> 0, is_read |-> FALSE, is_deleted |-> FALSE,
     deleted_at |-> {}, destruct_at |-> {}]

RemovedMessage == [NoMessage EXCEPT !.st = "removed"]

\* the text of the `message` field of a send request, as its characters
MessageContent == <<"h", "i">>

\* the length of base64.b64encode of n bytes
B64Len(n) == 4 * ((n + 2) \div 3)

\* _aes_encrypt: base64 of iv (12 bytes) + tag (16 bytes) + ciphertext (as long
\* as the data), as a sequence of that length whose head stands for the bytes
AesEncrypt(data, key) ==
    [i \in 1..B64Len(12 + 16 + Len(data)) |-> IF i = 1 THEN <<"aes", key>> ELSE "="]

\* _rsa_encrypt of the AES key: a base64 string (type str) that names the key
RsaEncrypt(key, recipient) == <<"str", key, recipient>>

\* encrypt_message: a fresh AES key (named by `key`), the pair of the encrypted
\* message and the encrypted session key
EncryptMessage(message, key, recipient) ==
    [content |-> AesEncrypt(message, key), session_key |-> RsaEncrypt(key, recipient)]

\* Message.__init__ followed by to_dict
NewMessage(sender, recipient, content, session_key, self_destruct_time, read_once, timestamp, original_content) ==
    [st |-> "stored", sender_id |-> sender, recipient_id |-> recipient,
     content |-> content, original_content |-> original_content,
     session_key |-> session_key, self_destruct_time |-> self_destruct_time,
     read_once |-> read_once, timestamp |-> timestamp,
     is_read |-> FALSE, is_deleted |-> FALSE, deleted_at |-> {},
     destruct_at |-> IF self_destruct_time > 0
                     THEN {timestamp + self_destruct_time} ELSE {}]

\* a thread's locals: `list` the ids a for loop has still to process, `docs`
\* the documents a query returned for them
Idle == [pc |-> "idle", mid |-> 0, n |-> 0, list |-> <<>>, docs |-> <<>>]
NotStarted == [Idle EXCEPT !.pc = "none"]
Loop == [Idle EXCEPT !.pc = "loop"]

\* ---- the encryption at the level of bytes
\* A str is the sequence of its code points, a bytes object the sequence of
\* its bytes (0..255), a base64 string the sequence of its characters, each
\* named by its index in the base64 alphabet (Pad for "=").

\* what a conversion gives when it raises
Failed == <<0 - 1>>

\* str.encode('utf-8') of one code point; <<>> for a surrogate, which encode
\* refuses (UnicodeEncodeError)
Utf8Char(cp) ==
    IF cp < 128 THEN <<cp>>
    ELSE IF cp < 2048 THEN <<192 + (cp \div 64), 128 + (cp % 64)>>
    ELSE IF cp >= 55296 /\ cp <= 57343 THEN <<>>
    ELSE <<224 + (cp \div 4096), 128 + ((cp \div 64) % 64), 128 + (cp % 64)>>

\* str.encode('utf-8')
RECURSIVE Utf8Encode(_)
Utf8Encode(str) ==
    IF str = <<>> THEN <<>> ELSE Utf8Char(Head(str)) \o Utf8Encode(Tail(str))

\* encode raises on the str
EncodeRaises(str) == \E i \in 1..Len(str) : Utf8Char(str[i]) = <<>>

\* a continuation byte 10xxxxxx
Continuation(b) == b >= 128 /\ b < 192

\* bytes.decode('utf-8'): the code points, or Failed on bytes that are not
\* the encoding of a str (UnicodeDecodeError)
RECURSIVE Utf8Decode(_)
Utf8Decode(bytes) ==
    IF bytes = <<>> THEN <<>>
    ELSE LET b == bytes[1]
             n == IF b < 128 THEN 1
                  ELSE IF b >= 194 /\ b < 224 THEN 2
                  ELSE IF b >= 224 /\ b < 240 THEN 3
                  ELSE 0
         IN  IF n = 0 \/ Len(bytes) < n
                \/ \E i \in 2..n : ~Continuation(bytes[i])
             THEN Failed
             ELSE LET cp == IF n = 1 THEN b
                            ELSE IF n = 2 THEN (b - 192) * 64 + (bytes[2] - 128)
                            ELSE (b - 224) * 4096 + (bytes[2] - 128) * 64
                                 + (bytes[3] - 128)
                      rest == Utf8Decode(SubSeq(bytes, n + 1, Len(bytes)))
                  IN  IF (n = 3 /\ (cp < 2048 \/ (cp >= 55296 /\ cp <= 57343)))
                         \/ rest = Failed
                      THEN Failed
                      ELSE <<cp>> \o rest

\* the "=" of base64
Pad == 64

\* base64.b64encode: each three bytes give four characters, and the last
\* group, if short, is padded with "="
B64Encode(bytes) ==
    LET n == Len(bytes)
        byte(k) == IF k <= n THEN bytes[k] ELSE 0
        bits(g) == byte(3 * g - 2) * 65536 + byte(3 * g - 1) * 256 + byte(3 * g)
        char(g, j) == IF j = 1 THEN bits(g) \div 262144
                      ELSE IF j = 2 THEN (bits(g) \div 4096) % 64
                      ELSE IF j = 3
                      THEN IF 3 * g - 1 <= n THEN (bits(g) \div 64) % 64 ELSE Pad
                      ELSE IF 3 * g <= n THEN bits(g) % 64 ELSE Pad
    IN  [i \in 1..(4 * ((n + 2) \div 3)) |-> char((i + 3) \div 4, ((i - 1) % 4) + 1)]

\* base64.b64decode of a string of alphabet characters: each four characters
\* give three bytes, less one for each "=" at the end; Failed on incorrect
\* padding (binascii.Error)
B64Decode(chars) ==
    LET m == Len(chars)
        pads == IF m = 0 \/ chars[m] # Pad THEN 0
                ELSE IF chars[m - 1] # Pad THEN 1 ELSE 2
        sextet(k) == IF chars[k] = Pad THEN 0 ELSE chars[k]
        bits(g) == sextet(4 * g - 3) * 262144 + sextet(4 * g - 2) * 4096
                   + sextet(4 * g - 1) * 64 + sextet(4 * g)
        byte(g, k) == IF k = 1 THEN bits(g) \div 65536
                      ELSE IF k = 2 THEN (bits(g) \div 256) % 256
                      ELSE bits(g) % 256
    IN  IF m % 4 # 0 \/ \E k \in 1..(m - pads) : chars[k] = Pad
        THEN Failed
        ELSE [i \in 1..(3 * (m \div 4) - pads) |-> byte((i + 2) \div 3, ((i - 1) % 3) + 1)]

\* bytes[a:b] of Python: the bytes after the first a up to the b-th, as far as
\* there are any
Slice(bytes, a, b) ==
    SubSeq(bytes, a + 1, IF b < Len(bytes) THEN b ELSE Len(bytes))

\* the size of the IV of _aes_encrypt, the size of the GCM tag, and the bytes
\* of an RSA-4096 ciphertext (self.rsa_key_size / 8)
IvSize == 12
TagSize == 16
RsaSize == 512

\* the n-th output of the library's randomness or of one of its ciphers: bytes
\* that tell nothing of the input
Opaque(n, len) == [i \in 1..len |-> (n + i) % 256]

\* the key pairs of generate_key_pair, and the two strings of a pair
KeyPairs == {"A", "B"}
PublicKey(a) == [kind |-> "public", pair |-> a]
PrivateKey(a) == [kind |-> "private", pair |-> a]

\* AES-256-GCM of the library, encryptor.update + finalize and encryptor.tag:
\* the n-th encryption, of `data` under `key` and `iv`
GcmEncrypt(key, iv, data, n) ==
    [key |-> key, iv |-> iv, data |-> data,
     ciphertext |-> Opaque(n, Len(data)), tag |-> Opaque(n + 1, TagSize)]

\* a cipher mode that checks no tag: some bytes for any input
GcmDecryptUnauthenticated(log, key, iv, tag, ciphertext) ==
    IF \E e \in log : e.key = key /\ e.iv = iv /\ e.ciphertext = ciphertext
    THEN (CHOOSE e \in log :
              e.key = key /\ e.iv = iv /\ e.ciphertext = ciphertext).data
    ELSE [i \in 1..Len(ciphertext) |-> 0]

\* modes.GCM(iv, tag), decryptor.update + finalize: ValueError on an iv under 8
\* bytes or a tag under 16, InvalidTag unless key, iv, tag and ciphertext are
\* those of one encryption, whose data it then returns
GcmDecrypt(log, key, iv, tag, ciphertext) ==
    IF Len(iv) < 8 \/ Len(tag) < TagSize THEN Failed
    ELSE IF \E e \in log : /\ e.key = key /\ e.iv = iv
                           /\ e.tag = tag /\ e.ciphertext = ciphertext
    THEN (CHOOSE e \in log : /\ e.key = key /\ e.iv = iv
                             /\ e.tag = tag /\ e.ciphertext = ciphertext).data
    ELSE Failed

\* RSA-OAEP of the library, public_key.encrypt: the n-th encryption
OaepEncrypt(public_key, data, n) ==
    [pair |-> public_key.pair, data |-> data, encrypted |-> Opaque(n, RsaSize)]

\* a private key that opens what was encrypted for any pair
OaepDecryptAnyPair(log, private_key, encrypted) ==
    {e.data : e \in {f \in log : f.encrypted = encrypted}}

\* private_key.decrypt: the data of the encryption for this pair that gave
\* these bytes, as a set; none (ValueError) for any other bytes or pair
OaepDecrypt(log, private_key, encrypted) ==
    {e.data : e \in {f \in log : /\ f.pair = private_key.pair
                                  /\ f.encrypted = encrypted}}

\* _aes_encrypt: the entry of the library's encryption and the string returned,
\* base64 of iv + tag + ciphertext
AesEncryptEntry(data, key, n) == GcmEncrypt(key, Opaque(n, IvSize), data, n)

AesEncrypted(entry) == B64Encode(entry.iv \o entry.tag \o entry.ciphertext)

\* the encrypted bytes taken from the start of the tag on
CiphertextFromTag(encrypted_bytes) ==
    Slice(encrypted_bytes, IvSize, Len(encrypted_bytes))

\* ciphertext = encrypted_bytes[28:]
CiphertextOf(encrypted_bytes) ==
    Slice(encrypted_bytes, IvSize + TagSize, Len(encrypted_bytes))

\* _aes_decrypt: the plaintext bytes, or Failed where the code raises
AesDecrypt(log, encrypted_data, key) ==
    LET encrypted_bytes == B64Decode(encrypted_data)
    IN  IF encrypted_bytes = Failed THEN Failed
        ELSE GcmDecrypt(log, key, Slice(encrypted_bytes, 0, IvSize),
                        Slice(encrypted_bytes, IvSize, IvSize + TagSize),
                        CiphertextOf(encrypted_bytes))

\* _rsa_encrypt: the string returned for the library's encryption
RsaEncrypted(entry) == B64Encode(entry.encrypted)

\* _rsa_decrypt: the data as a set, empty where the code raises
RsaDecrypt(log, encrypted_data, private_key) ==
    LET encrypted_bytes == B64Decode(encrypted_data)
    IN  IF encrypted_bytes = Failed THEN {}
        ELSE OaepDecrypt(log, private_key, encrypted_bytes)

\* decrypt_message: the str, or Failed where it raises
DecryptMessage(glog, olog, encrypted_message, encrypted_session_key, private_key) ==
    LET keys == RsaDecrypt(olog, encrypted_session_key, private_key)
    IN  IF keys = {} THEN Failed
        ELSE LET decrypted == AesDecrypt(glog, encrypted_message,
                                         CHOOSE k \in keys : TRUE)
             IN  IF decrypted = Failed THEN Failed ELSE Utf8Decode(decrypted)

\* encrypt_message has not been called; its fields once it has: the `message`
\* and the pair of the recipient, the two strings returned, what was done to
\* them on their way, the pair whose private key decrypt_message got, and what
\* decrypt_message returned
NoExchange ==
    [pc |-> "idle", message |-> <<>>, pair |-> "", encrypted_message |-> <<>>,
     encrypted_session_key |-> <<>>, tampered |-> "no", opened_with |-> "",
     returned |-> <<>>]

\* no call of PerfectForwardSecrecy yet; of a call: its number, the method, the
\* session id, whether it returned, and the str it returned
NoCall == [n |-> 0, op |-> "", session_id |-> "", ok |-> TRUE, value |-> <<>>]

\* get_destruction_queue has not been called
NoQueue == [asked |-> FALSE, list |-> <<>>]

\* ---- the store's message operations
Stored(msgs, id) == msgs[id].st = "stored"

\* a lookup that finds a document for every id
GetMessageByIdAlways(msgs, id) == TRUE

\* Database.get_message_by_id: the document, deleted or not
GetMessageById(msgs, id) == Stored(msgs, id)

\* what _destroy_message and the sweep read of a document they have fetched
Fetched(message) ==
    [sender_id |-> message.sender_id, recipient_id |-> message.recipient_id,
     content |-> message.content, session_key |-> message.session_key,
     self_destruct_time |-> message.self_destruct_time,
     read_once |-> message.read_once]

\* the elements of a sequence
Range(s) == {s[i] : i \in 1..Len(s)}

\* the ids of the collection in natural (insertion) order, which find() follows
NaturalOrder == [i \in MsgIds |-> i]

\* Database.delete_message: flags the document, whatever its flag was
DbDeleteMessage(msgs, id, t) ==
    IF Stored(msgs, id)
    THEN [msgs EXCEPT ![id].is_deleted = TRUE, ![id].deleted_at = {t}]
    ELSE msgs

\* Database.mark_message_as_read
MarkMessageAsRead(msgs, id) ==
    IF Stored(msgs, id) THEN [msgs EXCEPT ![id].is_read = TRUE] ELSE msgs

\* a variant of the update below that leaves the deadline in the cache only
SetDestructAtCacheOnly(msgs, id, t) == msgs

\* update_one {'$set': {'destruct_at': t}} of schedule_destruction
SetDestructAt(msgs, id, t) ==
    IF Stored(msgs, id) THEN [msgs EXCEPT ![id].destruct_at = {t}] ELSE msgs

\* a variant of the update below that also clears the deleted flag
UnsetDestructAtAndFlag(msgs, id) ==
    IF Stored(msgs, id)
    THEN [msgs EXCEPT ![id].destruct_at = {}, ![id].is_deleted = FALSE]
    ELSE msgs

\* update_one {'$unset': {'destruct_at': 1}} of cancel_destruction
UnsetDestructAt(msgs, id) ==
    IF Stored(msgs, id) THEN [msgs EXCEPT ![id].destruct_at = {}] ELSE msgs

\* a variant of the filter below that also takes a deadline equal to the time
ExpiredAtOrBefore(msgs, id, t) ==
    /\ Stored(msgs, id)
    /\ ~msgs[id].is_deleted
    /\ \E d \in msgs[id].destruct_at : d <= t

\* a variant of the filter below with the comparison the other way round
ExpiredReversed(msgs, id, t) ==
    /\ Stored(msgs, id)
    /\ ~msgs[id].is_deleted
    /\ \E d \in msgs[id].destruct_at : d > t

\* the filter of _cleanup_expired_messages: destruct_at < current_time, not deleted
Expired(msgs, id, t) ==
    /\ Stored(msgs, id)
    /\ ~msgs[id].is_deleted
    /\ \E d \in msgs[id].destruct_at : d < t

\* the filter of Database.get_pending_messages
Pending(msgs, id, user, t) ==
    /\ Stored(msgs, id)
    /\ msgs[id].recipient_id = user
    /\ ~msgs[id].is_read
    /\ ~msgs[id].is_deleted
    /\ \/ \E d \in msgs[id].destruct_at : d > t
       \/ msgs[id].destruct_at = {}

\* a filter of the conversation that leaves out the test of is_deleted
InConversationDeletedToo(msgs, id, user1, user2) ==
    /\ Stored(msgs, id)
    /\ \/ msgs[id].sender_id = user1 /\ msgs[id].recipient_id = user2
       \/ msgs[id].sender_id = user2 /\ msgs[id].recipient_id = user1

\* the filter of Database.get_conversation_messages
InConversation(msgs, id, user1, user2) ==
    /\ Stored(msgs, id)
    /\ \/ msgs[id].sender_id = user1 /\ msgs[id].recipient_id = user2
       \/ msgs[id].sender_id = user2 /\ msgs[id].recipient_id = user1
    /\ ~msgs[id].is_deleted

\* .sort("timestamp", 1): stable insertion sort of ids by timestamp
RECURSIVE InsertByTimestamp(_, _, _)
InsertByTimestamp(msgs, s, id) ==
    IF s = <<>> THEN <<id>>
    ELSE IF msgs[s[Len(s)]].timestamp <= msgs[id].timestamp THEN Append(s, id)
    ELSE Append(InsertByTimestamp(msgs, SubSeq(s, 1, Len(s) - 1), id), s[Len(s)])

RECURSIVE SortByTimestamp(_, _)
SortByTimestamp(msgs, s) ==
    IF s = <<>> THEN <<>>
    ELSE InsertByTimestamp(msgs, SortByTimestamp(msgs, SubSeq(s, 1, Len(s) - 1)), s[Len(s)])

GetPendingMessages(msgs, user, t) ==
    SortByTimestamp(msgs, SelectSeq(NaturalOrder, LAMBDA id : Pending(msgs, id, user, t)))

GetConversationMessages(msgs, user1, user2) ==
    SortByTimestamp(msgs, SelectSeq(NaturalOrder,
                              LAMBDA id : InConversation(msgs, id, user1, user2)))

\* an update of the store: with the server unreachable the driver raises, and
\* the database layer, or the except clause of the caller, drops the update
Written(new, old) == IF db_up THEN new ELSE old

\* ---- session key documents
NoKey ==
    [st |-> "none", created_at |-> 0, expires_at |-> {}, is_destroyed |-> FALSE,
     destroyed_at |-> {}]

\* SessionKey.__init__ followed by to_dict
NewSessionKey(created_at, expires_at) ==
    [st |-> "stored", created_at |-> created_at, expires_at |-> expires_at,
     is_destroyed |-> FALSE, destroyed_at |-> {}]

\* a filter of the key sweeps that also takes an expiry equal to t
KeyExpiredAtOrBefore(keys, k, t) ==
    /\ keys[k].st = "stored"
    /\ \E e \in keys[k].expires_at : e <= t
    /\ ~keys[k].is_destroyed

\* the filter of the key sweeps: expires_at < t, is_destroyed False
KeyExpired(keys, k, t) ==
    /\ keys[k].st = "stored"
    /\ \E e \in keys[k].expires_at : e < t
    /\ ~keys[k].is_destroyed

\* $set is_destroyed True, destroyed_at t on the document of key k
SetDestroyed(keys, k, t) ==
    IF keys[k].st = "stored"
    THEN [keys EXCEPT ![k].is_destroyed = TRUE, ![k].destroyed_at = {t}]
    ELSE keys

\* ---- the in-memory cache
CacheHas(c, id) == \E i \in 1..Len(c) : c[i].message_id = id

\* self.scheduled_messages[message_id] = destruction_task
CacheSet(c, task) ==
    IF CacheHas(c, task.message_id)
    THEN [i \in 1..Len(c) |-> IF c[i].message_id = task.message_id THEN task ELSE c[i]]
    ELSE Append(c, task)

\* del self.scheduled_messages[message_id], when present
CacheDel(c, id) == SelectSeq(c, LAMBDA e : e.message_id # id)

\* the selection of _check_scheduled_destructions
DueIds(c, t) ==
    LET due == SelectSeq(c, LAMBDA e : e.destruct_at <= t /\ e.status = "scheduled")
    IN  [i \in 1..Len(due) |-> due[i].message_id]

\* ---- the audit record of _log_message_destruction
LogEntry(id, message, t) ==
    [event_type |-> "message_destruction", message_id |-> id,
     sender_id |-> message.sender_id, recipient_id |-> message.recipient_id,
     destruction_reason |-> "scheduled_self_destruct", timestamp |-> t,
     metadata |-> [self_destruct_time |-> message.self_destruct_time,
                   read_once |-> message.read_once,
                   message_length |-> Len(message.content)]]

\* EncryptionManager.destroy_key on the session key of message id, called by
\* `trigger`; the function overwrites a local copy of the handle and returns
DestroyKey(calls, id, trigger) == [calls EXCEPT ![id] = Append(@, trigger)]

\* a session_key as send_message stores it: the base64 string of _rsa_encrypt
WellFormed(key) == key # <<>> /\ key[1] = "str"

\* what a damaged document may hold as its session_key: None, an integer
MalformedKeys == {<<"none">>, <<"int">>}

\* `if message.get('session_key'):` None is not truthy
Truthy(key) == key # <<>> /\ key[1] # "none"

\* a decrypt_message that returns a text for any handle
DecryptNeverRaises(key) == FALSE

\* decrypt_message raises unless the handle is an RSA-encrypted AES key
DecryptRaises(key) == ~WellFormed(key)

\* a destroy_key that lets the TypeError of len() on a handle that is neither
\* str nor bytes reach its caller
DestroyKeyRaisesOnMalformed(key) == ~WellFormed(key)

\* destroy_key raises to its caller: never, every exception raised in its body
\* is caught in its body
DestroyKeyRaises(key) == FALSE

Init ==
    /\ now = 0
    /\ running = FALSE
    /\ users = Users
    /\ messages = [i \in MsgIds |-> NoMessage]
    /\ scheduled_messages = <<>>
    /\ system_logs = <<>>
    /\ destroy_key_calls = [i \in MsgIds |-> <<>>]
    /\ th = [t \in Threads |-> IF t \in Background THEN NotStarted ELSE Idle]
    /\ issued = 0
    /\ reads = 0
    /\ db_up = TRUE
    /\ outages = 0
    /\ opened = [i \in MsgIds |-> <<>>]
    /\ session_keys = [k \in KeyIds |-> NoKey]
    /\ pfs = [s \in Sessions |-> {}]
    /\ pfs_made = 0
    /\ pfs_destroyed = {}
    /\ pfs_sent = {}
    /\ pfs_ret = NoCall
    /\ gcm = {}
    /\ oaep = {}
    /\ exchange = NoExchange
    /\ queue = NoQueue
    /\ loop_threads = <<>>
    /\ start_pc = [c \in Requests |-> "idle"]
    /\ starts = 0
    /\ chat_rooms = [room \in 1..NumRooms |->
                         [st |-> "none", max_members |-> 0, members |-> {}]]
    /\ join = [r \in Requests |-> [pc |-> "idle", user |-> "", room |-> 0]]

\* time passes
Tick ==
    /\ now < MaxTime
    /\ now' = now + 1
    /\ UNCHANGED <<running, users, messages, scheduled_messages, system_logs,
                   destroy_key_calls, th, issued>>
    /\ UNCHANGED <<reads, opened>>
    /\ UNCHANGED <<db_up, outages>>
    /\ UNCHANGED keyvars

\* MessageScheduler.start
Start ==
    /\ ~running
    /\ running' = TRUE
    /\ th' = [t \in Threads |-> IF t \in Background THEN Loop ELSE th[t]]
    /\ UNCHANGED <<now, users, messages, scheduled_messages, system_logs,
                   destroy_key_calls, issued>>
    /\ UNCHANGED <<reads, opened>>
    /\ UNCHANGED <<db_up, outages>>
    /\ UNCHANGED keyvars

\* ---- thread-local bookkeeping
Goto(t, rec) == th' = [th EXCEPT ![t] = rec]

At(t, pc) == th[t].pc = pc

\* the next item of a thread's for loop, or `done` after the last one
NextItem(t, pc, done) ==
    IF Tail(th[t].list) = <<>> THEN done
    ELSE [Idle EXCEPT !.pc = pc, !.n = th[t].n, !.list = Tail(th[t].list),
                      !.docs = [i \in DOMAIN th[t].docs \ {Head(th[t].list)} |->
                                   th[t].docs[i]]]

FreeIds == {i \in MsgIds : messages[i].st = "none"}

\* ---- request handlers (app.py) and the scheduling API

\* send_message, to the insert of the message
SendMessage(r, sender, recipient, self_destruct_time, read_once) ==
    /\ At(r, "idle")
    /\ db_up
    /\ issued < MaxRequests
    /\ recipient \in users
    /\ FreeIds # {}
    /\ LET id == CHOOSE i \in FreeIds : \A j \in FreeIds : i <= j
           enc == EncryptMessage(MessageContent, id, recipient)
       IN  /\ messages' = [messages EXCEPT ![id] =
                  NewMessage(sender, recipient, enc.content, enc.session_key,
                             self_destruct_time, read_once, now, MessageContent)]
           /\ Goto(r, IF self_destruct_time > 0
                      THEN [Idle EXCEPT !.pc = "send_schedule", !.mid = id,
                                        !.n = self_destruct_time]
                      ELSE Idle)
    /\ issued' = issued + 1
    /\ UNCHANGED <<now, running, users, scheduled_messages, system_logs,
                   destroy_key_calls>>
    /\ UNCHANGED <<reads, opened>>
    /\ UNCHANGED <<db_up, outages>>
    /\ UNCHANGED keyvars

\* schedule_destruction, to the write of the cache entry
ScheduleCache(t, id, delta) ==
    LET destruct_at == now + delta
    IN  /\ scheduled_messages' = CacheSet(scheduled_messages,
               [message_id |-> id, destruct_at |-> destruct_at, status |-> "scheduled"])
        /\ Goto(t, [Idle EXCEPT !.pc = "schedule_db", !.mid = id, !.n = destruct_at])

\* send_message calls schedule_destruction(message_id, self_destruct_time, read_once)
SendSchedule(r) ==
    /\ At(r, "send_schedule")
    /\ ScheduleCache(r, th[r].mid, th[r].n)
    /\ UNCHANGED <<now, running, users, messages, system_logs, destroy_key_calls, issued>>
    /\ UNCHANGED <<reads, opened>>
    /\ UNCHANGED <<db_up, outages>>
    /\ UNCHANGED keyvars

\* schedule_destruction(message_id, destruct_time) called on the scheduler
ScheduleDestruction(r, id, delta) ==
    /\ At(r, "idle")
    /\ issued < MaxRequests
    /\ ScheduleCache(r, id, delta)
    /\ issued' = issued + 1
    /\ UNCHANGED <<now, running, users, messages, system_logs, destroy_key_calls>>
    /\ UNCHANGED <<reads, opened>>
    /\ UNCHANGED <<db_up, outages>>
    /\ UNCHANGED keyvars

\* schedule_destruction: the update of the stored document
ScheduleDbUpdate(r) ==
    /\ At(r, "schedule_db")
    /\ messages' = Written(SetDestructAt(messages, th[r].mid, th[r].n), messages)
    /\ Goto(r, Idle)
    /\ UNCHANGED <<now, running, users, scheduled_messages, system_logs,
                   destroy_key_calls, issued>>
    /\ UNCHANGED <<reads, opened>>
    /\ UNCHANGED <<db_up, outages>>
    /\ UNCHANGED keyvars

\* cancel_destruction: the test `message_id in self.scheduled_messages`
CancelDestruction(r, id) ==
    /\ At(r, "idle")
    /\ issued < MaxRequests
    /\ Goto(r, [Idle EXCEPT !.pc = IF CacheHas(scheduled_messages, id)
                                   THEN "cancel_del" ELSE "cancel_db",
                            !.mid = id])
    /\ issued' = issued + 1
    /\ UNCHANGED <<now, running, users, messages, scheduled_messages, system_logs,
                   destroy_key_calls>>
    /\ UNCHANGED <<reads, opened>>
    /\ UNCHANGED <<db_up, outages>>
    /\ UNCHANGED keyvars

\* cancel_destruction: del self.scheduled_messages[message_id]; a KeyError, when
\* the entry has gone since the test, ends the call in its except clause
CancelDel(r) ==
    /\ At(r, "cancel_del")
    /\ IF CacheHas(scheduled_messages, th[r].mid)
       THEN /\ scheduled_messages' = CacheDel(scheduled_messages, th[r].mid)
            /\ Goto(r, [th[r] EXCEPT !.pc = "cancel_db"])
       ELSE /\ UNCHANGED scheduled_messages
            /\ Goto(r, Idle)
    /\ UNCHANGED <<now, running, users, messages, system_logs, destroy_key_calls,
                   issued>>
    /\ UNCHANGED <<reads, opened>>
    /\ UNCHANGED <<db_up, outages>>
    /\ UNCHANGED keyvars

\* cancel_destruction: the update of the stored document
CancelDbUpdate(r) ==
    /\ At(r, "cancel_db")
    /\ messages' = Written(UnsetDestructAt(messages, th[r].mid), messages)
    /\ Goto(r, Idle)
    /\ UNCHANGED <<now, running, users, scheduled_messages, system_logs,
                   destroy_key_calls, issued>>
    /\ UNCHANGED <<reads, opened>>
    /\ UNCHANGED <<db_up, outages>>
    /\ UNCHANGED keyvars

\* delete_message endpoint: the ownership check
DeleteMessage(r, user, id) ==
    /\ At(r, "idle")
    /\ db_up
    /\ issued < MaxRequests
    /\ GetMessageById(messages, id)
    /\ messages[id].sender_id = user \/ messages[id].recipient_id = user
    /\ Goto(r, [Idle EXCEPT !.pc = "delete", !.mid = id,
                            !.docs = [i \in {id} |-> Fetched(messages[i])]])
    /\ issued' = issued + 1
    /\ UNCHANGED <<now, running, users, messages, scheduled_messages, system_logs,
                   destroy_key_calls>>
    /\ UNCHANGED <<reads, opened>>
    /\ UNCHANGED <<db_up, outages>>
    /\ UNCHANGED keyvars

\* delete_message endpoint: db.delete_message, then destroy_key on the handle of
\* the fetched document (an exception of destroy_key would make the response a
\* 500, with the document flagged already)
DeleteMessageFlag(r) ==
    /\ At(r, "delete")
    /\ messages' = Written(DbDeleteMessage(messages, th[r].mid, now), messages)
    /\ destroy_key_calls' = DestroyKey(destroy_key_calls, th[r].mid, "delete")
    /\ Goto(r, Idle)
    /\ UNCHANGED <<now, running, users, scheduled_messages, system_logs, issued>>
    /\ UNCHANGED <<reads, opened>>
    /\ UNCHANGED <<db_up, outages>>
    /\ UNCHANGED keyvars

\* receive_messages, to the query of the pending messages
ReceiveMessages(r, user) ==
    /\ At(r, "idle")
    /\ db_up
    /\ issued < MaxRequests
    /\ user \in users
    /\ LET pending == GetPendingMessages(messages, user, now)
       IN  /\ pending # <<>>
           /\ Goto(r, [Idle EXCEPT !.pc = "receive", !.list =
                  [i \in 1..Len(pending) |->
                      [id |-> pending[i], read_once |-> messages[pending[i]].read_once,
                       session_key |-> messages[pending[i]].session_key]]])
    /\ issued' = issued + 1
    /\ UNCHANGED <<now, running, users, messages, scheduled_messages, system_logs,
                   destroy_key_calls>>
    /\ UNCHANGED <<reads, opened>>
    /\ UNCHANGED <<db_up, outages>>
    /\ UNCHANGED keyvars

\* receive_messages, one message: decrypt_message, mark_message_as_read and, for a
\* read_once message, db.delete_message and destroy_key (consecutive updates of
\* the one document)
ReceiveRead(r) ==
    /\ At(r, "receive")
    /\ LET msg == Head(th[r].list)
           read == MarkMessageAsRead(messages, msg.id)
       IN  IF DecryptRaises(msg.session_key)
           THEN UNCHANGED <<opened, messages, destroy_key_calls>>
           ELSE /\ opened' = [opened EXCEPT ![msg.id] = Append(@, "receive")]
                /\ IF msg.read_once
                   THEN /\ messages' = Written(DbDeleteMessage(read, msg.id, now),
                                                  messages)
                        /\ destroy_key_calls' = DestroyKey(destroy_key_calls, msg.id,
                                                           "read_once")
                   ELSE /\ messages' = Written(read, messages)
                        /\ UNCHANGED destroy_key_calls
    /\ Goto(r, NextItem(r, "receive", Idle))
    /\ UNCHANGED <<now, running, users, scheduled_messages, system_logs, issued, reads>>
    /\ UNCHANGED <<db_up, outages>>
    /\ UNCHANGED keyvars

\* get_conversation: db.get_conversation_messages, then decrypt_message on each
\* fetched message whose recipient is the caller; the only access to the store
\* is the query
GetConversation(r, user, other) ==
    /\ At(r, "idle")
    /\ db_up
    /\ reads < MaxReads
    /\ user \in users
    /\ LET conv == GetConversationMessages(messages, user, other)
       IN  opened' = [i \in MsgIds |->
               IF /\ i \in Range(conv) /\ messages[i].recipient_id = user
                  /\ ~DecryptRaises(messages[i].session_key)
               THEN Append(opened[i], "conversation") ELSE opened[i]]
    /\ reads' = reads + 1
    /\ UNCHANGED <<now, running, users, messages, scheduled_messages, system_logs,
                   destroy_key_calls, th, issued>>
    /\ UNCHANGED <<db_up, outages>>
    /\ UNCHANGED keyvars

\* Database.delete_user, called by the delete_user endpoint
DeleteUser(r, user) ==
    /\ At(r, "idle")
    /\ db_up
    /\ issued < MaxRequests
    /\ user \in users
    /\ users' = users \ {user}
    /\ messages' = [i \in MsgIds |->
           IF Stored(messages, i)
              /\ (messages[i].sender_id = user \/ messages[i].recipient_id = user)
           THEN RemovedMessage ELSE messages[i]]
    /\ issued' = issued + 1
    /\ UNCHANGED <<now, running, scheduled_messages, system_logs, destroy_key_calls, th>>
    /\ UNCHANGED <<reads, opened>>
    /\ UNCHANGED <<db_up, outages>>
    /\ UNCHANGED keyvars

\* ---- the scheduler loop (_run_scheduler)

\* _check_scheduled_destructions: the pass over the cache
CheckScheduledDestructions ==
    /\ At("scheduler", "loop")
    /\ running
    /\ LET due == DueIds(scheduled_messages, now)
       IN  Goto("scheduler", IF due = <<>> THEN [Idle EXCEPT !.pc = "run_pending"]
                             ELSE [Idle EXCEPT !.pc = "destroy", !.list = due])
    /\ UNCHANGED <<now, running, users, messages, scheduled_messages, system_logs,
                   destroy_key_calls, issued>>
    /\ UNCHANGED <<reads, opened>>
    /\ UNCHANGED <<db_up, outages>>
    /\ UNCHANGED keyvars

\* _destroy_message: get_message_by_id
DestroyMessage ==
    /\ At("scheduler", "destroy")
    /\ Goto("scheduler",
            IF db_up /\ GetMessageById(messages, Head(th["scheduler"].list))
            THEN [th["scheduler"] EXCEPT !.pc = "destroy_flag",
                     !.docs = [i \in {Head(th["scheduler"].list)} |->
                                  Fetched(messages[i])]]
            ELSE NextItem("scheduler", "destroy", [Idle EXCEPT !.pc = "run_pending"]))
    /\ UNCHANGED <<now, running, users, messages, scheduled_messages, system_logs,
                   destroy_key_calls, issued>>
    /\ UNCHANGED <<reads, opened>>
    /\ UNCHANGED <<db_up, outages>>
    /\ UNCHANGED keyvars

\* _destroy_message: destroy_key, then db.delete_message
DestroyMessageFlag ==
    /\ At("scheduler", "destroy_flag")
    /\ LET id == Head(th["scheduler"].list)
           key == th["scheduler"].docs[id].session_key
       IN  /\ destroy_key_calls' = IF Truthy(key)
                                   THEN DestroyKey(destroy_key_calls, id, "cache")
                                   ELSE destroy_key_calls
           /\ IF Truthy(key) /\ DestroyKeyRaises(key)
              THEN /\ UNCHANGED messages
                   /\ Goto("scheduler", NextItem("scheduler", "destroy",
                                                 [Idle EXCEPT !.pc = "run_pending"]))
              ELSE /\ messages' = Written(DbDeleteMessage(messages, id, now), messages)
                   /\ Goto("scheduler", [th["scheduler"] EXCEPT !.pc = "destroy_finish"])
    /\ UNCHANGED <<now, running, users, scheduled_messages, system_logs, issued>>
    /\ UNCHANGED <<reads, opened>>
    /\ UNCHANGED <<db_up, outages>>
    /\ UNCHANGED keyvars

\* _destroy_message: the test `message_id in self.scheduled_messages` and, with
\* no entry to remove, _log_message_destruction
DestroyMessageFinish ==
    /\ At("scheduler", "destroy_finish")
    /\ LET id == Head(th["scheduler"].list)
       IN  IF CacheHas(scheduled_messages, id)
           THEN /\ Goto("scheduler", [th["scheduler"] EXCEPT !.pc = "destroy_del"])
                /\ UNCHANGED system_logs
           ELSE /\ system_logs' = Written(Append(system_logs,
                                              LogEntry(id, th["scheduler"].docs[id], now)),
                                       system_logs)
                /\ Goto("scheduler", NextItem("scheduler", "destroy",
                                              [Idle EXCEPT !.pc = "run_pending"]))
    /\ UNCHANGED <<now, running, users, messages, scheduled_messages,
                   destroy_key_calls, issued>>
    /\ UNCHANGED <<reads, opened>>
    /\ UNCHANGED <<db_up, outages>>
    /\ UNCHANGED keyvars

\* _destroy_message: the status write and the del of the cache entry, then
\* _log_message_destruction; a KeyError, when the entry has gone since the
\* test, ends the call in its except clause, before the audit record
DestroyCacheDel ==
    /\ At("scheduler", "destroy_del")
    /\ LET id == Head(th["scheduler"].list)
       IN  IF CacheHas(scheduled_messages, id)
           THEN /\ scheduled_messages' = CacheDel(scheduled_messages, id)
                /\ system_logs' = Written(Append(system_logs,
                                              LogEntry(id, th["scheduler"].docs[id], now)),
                                       system_logs)
           ELSE UNCHANGED <<scheduled_messages, system_logs>>
    /\ Goto("scheduler", NextItem("scheduler", "destroy", [Idle EXCEPT !.pc = "run_pending"]))
    /\ UNCHANGED <<now, running, users, messages, destroy_key_calls, issued>>
    /\ UNCHANGED <<reads, opened>>
    /\ UNCHANGED <<db_up, outages>>
    /\ UNCHANGED keyvars

\* schedule.run_pending() with no job due, then the sleep
RunPendingIdle ==
    /\ At("scheduler", "run_pending")
    /\ Goto("scheduler", Loop)
    /\ UNCHANGED <<now, running, users, messages, scheduled_messages, system_logs,
                   destroy_key_calls, issued>>
    /\ UNCHANGED <<reads, opened>>
    /\ UNCHANGED <<db_up, outages>>
    /\ UNCHANGED keyvars

\* ---- _cleanup_expired_messages, in the cleanup loop and as the every-minute job

\* a sweep whose failed query ends the thread that runs it
AfterFailedSweepDead == [Idle EXCEPT !.pc = "dead"]

\* where a thread is after a sweep whose query raised: the except clause of
\* _cleanup_expired_messages ends the sweep, the loop of the thread goes on
AfterFailedSweep == Loop

\* a sweep that ends at the first item whose update fails
AfterFailedItemAbort(t) == Loop

\* where the sweep is after an item whose processing raised: the except clause
\* within the for loop, then the next item
AfterFailedItem(t) == NextItem(t, "cleanup", Loop)

\* the find of the expired messages
CleanupFind(t) ==
    LET expired == SelectSeq(NaturalOrder, LAMBDA id : Expired(messages, id, now))
    IN  /\ Goto(t, IF ~db_up THEN AfterFailedSweep
                   ELSE IF expired = <<>> THEN Loop
                   ELSE [Idle EXCEPT !.pc = "cleanup", !.n = now, !.list = expired,
                                     !.docs = [i \in Range(expired) |->
                                                  Fetched(messages[i])]])
        /\ UNCHANGED <<now, running, users, messages, scheduled_messages, system_logs,
                       destroy_key_calls, issued>>
    /\ UNCHANGED <<reads, opened>>
    /\ UNCHANGED <<db_up, outages>>
    /\ UNCHANGED keyvars

\* _run_cleanup: one tick of the cleanup loop
RunCleanup ==
    /\ At("cleanup", "loop")
    /\ running
    /\ CleanupFind("cleanup")

\* schedule.run_pending() with the every-minute job due
RunPendingCleanup ==
    /\ At("scheduler", "run_pending")
    /\ CleanupFind("scheduler")

\* one expired message: destroy_key, the update of the document, the audit record
CleanupExpiredMessage(t) ==
    /\ At(t, "cleanup")
    /\ LET id == Head(th[t].list)
           key == th[t].docs[id].session_key
       IN  /\ destroy_key_calls' = IF Truthy(key)
                                   THEN DestroyKey(destroy_key_calls, id, "sweep")
                                   ELSE destroy_key_calls
           /\ IF (Truthy(key) /\ DestroyKeyRaises(key)) \/ ~db_up
              THEN /\ UNCHANGED <<messages, system_logs>>
                   /\ Goto(t, AfterFailedItem(t))
              ELSE /\ messages' = DbDeleteMessage(messages, id, th[t].n)
                   /\ system_logs' = Append(system_logs,
                                            LogEntry(id, th[t].docs[id], now))
                   /\ Goto(t, NextItem(t, "cleanup", Loop))
    /\ UNCHANGED <<now, running, users, scheduled_messages, issued>>
    /\ UNCHANGED <<reads, opened>>
    /\ UNCHANGED <<db_up, outages>>
    /\ UNCHANGED keyvars

\* a restart of the started process: the in-memory state is lost, the store is kept
Restart ==
    /\ running
    /\ running' = FALSE
    /\ scheduled_messages' = <<>>
    /\ th' = [t \in Threads |-> IF t \in Background THEN NotStarted ELSE Idle]
    /\ UNCHANGED <<now, users, messages, system_logs, destroy_key_calls, issued>>
    /\ UNCHANGED <<reads, opened>>
    /\ UNCHANGED <<db_up, outages>>
    /\ UNCHANGED keyvars

\* damage to a stored document from outside the program: its session_key is
\* replaced by a value that is not a key handle
CorruptSessionKey(id, key) ==
    /\ Stored(messages, id)
    /\ WellFormed(messages[id].session_key)
    /\ messages' = [messages EXCEPT ![id].session_key = key]
    /\ UNCHANGED <<now, running, users, scheduled_messages, system_logs,
                   destroy_key_calls, th, issued, reads, opened>>
    /\ UNCHANGED <<db_up, outages>>
    /\ UNCHANGED keyvars

\* the MongoDB server becomes unreachable: every access raises
StorageFails ==
    /\ db_up
    /\ outages < MaxOutages
    /\ db_up' = FALSE
    /\ outages' = outages + 1
    /\ UNCHANGED <<now, running, users, messages, scheduled_messages, system_logs,
                   destroy_key_calls, th, issued, reads, opened, keyvars>>

\* the MongoDB server is reachable again
StorageRecovers ==
    /\ ~db_up
    /\ db_up' = TRUE
    /\ UNCHANGED <<now, running, users, messages, scheduled_messages, system_logs,
                   destroy_key_calls, th, issued, reads, outages, opened, keyvars>>

\* ---- session keys: the documents of db.session_keys

\* Database.create_session_key of a SessionKey created now
CreateSessionKey(k, expires_at) ==
    /\ session_keys[k].st = "none"
    /\ session_keys' = [session_keys EXCEPT ![k] = NewSessionKey(now, expires_at)]
    /\ UNCHANGED <<now, running, th, msgvars, pfsvars, libvars, exchange, queue>>
    /\ UNCHANGED <<loopvars, roomvars>>

\* Database.destroy_session_key: update_one on key_id, with no test of is_destroyed
DbDestroySessionKey(k) ==
    /\ session_keys' = SetDestroyed(session_keys, k, now)
    /\ UNCHANGED <<now, running, th, msgvars, pfsvars, libvars, exchange, queue>>
    /\ UNCHANGED <<loopvars, roomvars>>

\* Database.cleanup_expired_keys: one update_many
DbCleanupExpiredKeys ==
    /\ session_keys' = [k \in KeyIds |->
           IF KeyExpired(session_keys, k, now)
           THEN SetDestroyed(session_keys, k, now)[k] ELSE session_keys[k]]
    /\ UNCHANGED <<now, running, th, msgvars, pfsvars, libvars, exchange, queue>>
    /\ UNCHANGED <<loopvars, roomvars>>

\* _cleanup_expired_keys in the cleanup loop: the find of the expired keys
CleanupExpiredKeysFind ==
    /\ At("cleanup", "loop")
    /\ running
    /\ LET expired == SelectSeq([k \in KeyIds |-> k],
                                LAMBDA k : KeyExpired(session_keys, k, now))
       IN  Goto("cleanup", IF expired = <<>> THEN Loop
                           ELSE [Idle EXCEPT !.pc = "key_cleanup", !.n = now,
                                             !.list = expired])
    /\ UNCHANGED <<now, running, msgvars, keyvars>>

\* _cleanup_expired_keys: the update of one key found, by its _id
CleanupExpiredKey ==
    /\ At("cleanup", "key_cleanup")
    /\ session_keys' = SetDestroyed(session_keys, Head(th["cleanup"].list),
                                    th["cleanup"].n)
    /\ Goto("cleanup", NextItem("cleanup", "key_cleanup", Loop))
    /\ UNCHANGED <<now, running, msgvars, pfsvars, libvars, exchange, queue>>
    /\ UNCHANGED <<loopvars, roomvars>>

\* ---- get_destruction_queue

\* a filter that also takes the deadlines equal to t
QueuedAtOrAfter(msgs, id, t) ==
    /\ Stored(msgs, id)
    /\ \E d \in msgs[id].destruct_at : d >= t
    /\ ~msgs[id].is_deleted

\* the filter of get_destruction_queue: destruct_at $gt t, is_deleted False
Queued(msgs, id, t) ==
    /\ Stored(msgs, id)
    /\ \E d \in msgs[id].destruct_at : d > t
    /\ ~msgs[id].is_deleted

\* datetime.isoformat: a str of the time
Isoformat(t) == <<"iso", t>>

\* the dict get_destruction_queue appends for a document
QueueEntry(id, message, current_time) ==
    LET destruct_at == CHOOSE d \in message.destruct_at : TRUE
    IN  [message_id |-> id, sender_id |-> message.sender_id,
         recipient_id |-> message.recipient_id,
         destruct_at |-> Isoformat(destruct_at),
         time_remaining |-> destruct_at - current_time,
         read_once |-> message.read_once]

\* find(...).sort('destruct_at', 1): the ids of the documents in an order of
\* ascending destruct_at; the order among equal values is the server's
SortedByDestructAt(msgs, ids) ==
    {q \in [1..Cardinality(ids) -> ids] :
        /\ \A i, j \in 1..Cardinality(ids) : i # j => q[i] # q[j]
        /\ \A i, j \in 1..Cardinality(ids) :
               i < j => \A a \in msgs[q[i]].destruct_at, b \in msgs[q[j]].destruct_at :
                            a <= b}

\* get_destruction_queue: [] if the query raises
GetDestructionQueue ==
    /\ IF ~db_up
       THEN queue' = [asked |-> TRUE, list |-> <<>>]
       ELSE \E q \in SortedByDestructAt(messages,
                                        {id \in MsgIds : Queued(messages, id, now)}) :
                queue' = [asked |-> TRUE,
                          list |-> [i \in 1..Len(q) |->
                                       QueueEntry(q[i], messages[q[i]], now)]]
    /\ UNCHANGED <<now, running, th, msgvars, session_keys, pfsvars, libvars, exchange>>
    /\ UNCHANGED <<loopvars, roomvars>>

\* a stored document of message id, with the fields the queue reads
QueueDoc(id, deleted, destruct_at, read_once) ==
    LET enc == EncryptMessage(MessageContent, id, Recipient)
    IN  [NewMessage(Sender, Recipient, enc.content, enc.session_key, 0,
                    read_once, 0, MessageContent)
            EXCEPT !.is_deleted = deleted,
                   !.deleted_at = IF deleted THEN {0} ELSE {},
                   !.destruct_at = destruct_at]

\* the deadlines of the documents and of the cache entries
Deadlines == 0..(MaxTime + 1)

\* any store of messages, any time and any cache
QueueInit ==
    /\ now \in 0..MaxTime
    /\ running = FALSE
    /\ users = Users
    /\ \E st \in [MsgIds -> {"none", "live", "deleted"}] :
       \E at \in [MsgIds -> {{}} \cup {{d} : d \in Deadlines}] :
           messages = [id \in MsgIds |->
                          IF st[id] = "none" THEN NoMessage
                          ELSE QueueDoc(id, st[id] = "deleted", at[id], FALSE)]
    /\ scheduled_messages \in
           {<<>>} \cup {<<[message_id |-> id, destruct_at |-> d,
                          status |-> "scheduled"]>> :
                           id \in MsgIds, d \in {0, MaxTime + 1}}
    /\ system_logs = <<>>
    /\ destroy_key_calls = [i \in MsgIds |-> <<>>]
    /\ th = [t \in Threads |-> IF t \in Background THEN NotStarted ELSE Idle]
    /\ issued = 0
    /\ reads = 0
    /\ db_up = TRUE
    /\ outages = 0
    /\ opened = [i \in MsgIds |-> <<>>]
    /\ session_keys = [k \in KeyIds |-> NoKey]
    /\ pfs = [s \in Sessions |-> {}]
    /\ pfs_made = 0
    /\ pfs_destroyed = {}
    /\ pfs_sent = {}
    /\ pfs_ret = NoCall
    /\ gcm = {}
    /\ oaep = {}
    /\ exchange = NoExchange
    /\ queue = NoQueue
    /\ loop_threads = <<>>
    /\ start_pc = [c \in Requests |-> "idle"]
    /\ starts = 0
    /\ chat_rooms = [room \in 1..NumRooms |->
                         [st |-> "none", max_members |-> 0, members |-> {}]]
    /\ join = [r \in Requests |-> [pc |-> "idle", user |-> "", room |-> 0]]

QueueSpec == QueueInit /\ [][GetDestructionQueue]_vars

\* ---- encrypt_message and decrypt_message

\* the characters of the messages: "h", "e" with acute accent, the euro sign,
\* and a lone surrogate (which a JSON request can carry)
CodePoints == {104, 233, 8364, 55296}

\* the `message` strings
Plaintexts == UNION {[1..k -> CodePoints] : k \in 0..MaxPlain}

\* a generator that returns the same key at every call
GenerateAesKeyFixed(made) == 1

\* generate_aes_key: the made-th key drawn, 32 random bytes named by a number
GenerateAesKey(made) == made + 1

\* the bytes of the encrypted session key that are changed on its way: its
\* first and its last KeyEdge bytes
ChangedKeyBytes == (1..KeyEdge) \cup ((RsaSize - KeyEdge + 1)..RsaSize)

\* a byte with every bit flipped
Flip(b) == 255 - b

\* encrypt_message(message, public key of pair a): raises if the message cannot
\* be encoded, else returns the encrypted message and the encrypted session key
EncryptMessageCall(message, a) ==
    /\ exchange.pc = "idle"
    /\ IF EncodeRaises(message)
       THEN /\ exchange' = [exchange EXCEPT !.pc = "raised", !.message = message,
                                            !.pair = a]
            /\ UNCHANGED libvars
       ELSE LET aes_key == GenerateAesKey(Cardinality(oaep))
                e == AesEncryptEntry(Utf8Encode(message), aes_key,
                                     Cardinality(gcm) + 1)
                k == OaepEncrypt(PublicKey(a), aes_key, Cardinality(oaep) + 1)
            IN  /\ gcm' = gcm \cup {e}
                /\ oaep' = oaep \cup {k}
                /\ exchange' = [exchange EXCEPT
                                    !.pc = "encrypted", !.message = message,
                                    !.pair = a,
                                    !.encrypted_message = AesEncrypted(e),
                                    !.encrypted_session_key = RsaEncrypted(k)]
    /\ UNCHANGED <<now, running, th, msgvars, session_keys, pfsvars, queue>>
    /\ UNCHANGED <<loopvars, roomvars>>

\* on its way to decrypt_message, byte p of the encrypted message (iv, tag or
\* ciphertext) is changed
TamperMessage(p) ==
    /\ exchange.pc = "encrypted"
    /\ LET bytes == B64Decode(exchange.encrypted_message)
       IN  /\ p \in 1..Len(bytes)
           /\ exchange' = [exchange EXCEPT
                               !.pc = "tampered", !.tampered = "message",
                               !.encrypted_message =
                                   B64Encode([bytes EXCEPT ![p] = Flip(bytes[p])])]
    /\ UNCHANGED <<now, running, th, msgvars, session_keys, pfsvars, libvars, queue>>
    /\ UNCHANGED <<loopvars, roomvars>>

\* the encrypted message is cut to its first len bytes, fewer than iv and tag
TruncateMessage(len) ==
    /\ exchange.pc = "encrypted"
    /\ len < IvSize + TagSize
    /\ exchange' = [exchange EXCEPT
                        !.pc = "tampered", !.tampered = "truncated",
                        !.encrypted_message =
                            B64Encode(Slice(B64Decode(exchange.encrypted_message),
                                            0, len))]
    /\ UNCHANGED <<now, running, th, msgvars, session_keys, pfsvars, libvars, queue>>
    /\ UNCHANGED <<loopvars, roomvars>>

\* byte p of the encrypted session key is changed
TamperSessionKey(p) ==
    /\ exchange.pc = "encrypted"
    /\ LET bytes == B64Decode(exchange.encrypted_session_key)
       IN  /\ p \in 1..Len(bytes)
           /\ exchange' = [exchange EXCEPT
                               !.pc = "tampered", !.tampered = "session_key",
                               !.encrypted_session_key =
                                   B64Encode([bytes EXCEPT ![p] = Flip(bytes[p])])]
    /\ UNCHANGED <<now, running, th, msgvars, session_keys, pfsvars, libvars, queue>>
    /\ UNCHANGED <<loopvars, roomvars>>

\* decrypt_message with the private key of pair b
DecryptMessageCall(b) ==
    /\ exchange.pc \in {"encrypted", "tampered"}
    /\ exchange' = [exchange EXCEPT
                        !.pc = "decrypted", !.opened_with = b,
                        !.returned = DecryptMessage(gcm, oaep,
                                                    exchange.encrypted_message,
                                                    exchange.encrypted_session_key,
                                                    PrivateKey(b))]
    /\ UNCHANGED <<now, running, th, msgvars, session_keys, pfsvars, libvars, queue>>
    /\ UNCHANGED <<loopvars, roomvars>>

\* ---- PerfectForwardSecrecy

\* the `message` strings of the sessions
SessionMessages == {<<104>>, <<8364, 233>>}

\* the outcome of the next call of PerfectForwardSecrecy
Called(op, s, value) ==
    [n |-> pfs_ret.n + 1, op |-> op, session_id |-> s, ok |-> value # Failed,
     value |-> value]

\* generate_ephemeral_key: a fresh key, stored under the session id whatever
\* the dict held for it
GenerateEphemeralKey(s) ==
    /\ pfs_made < MaxEphemeral
    /\ pfs_ret.n < MaxCalls
    /\ pfs' = [pfs EXCEPT ![s] = {GenerateAesKey(pfs_made)}]
    /\ pfs_made' = pfs_made + 1
    /\ pfs_ret' = Called("generate", s, <<GenerateAesKey(pfs_made)>>)
    /\ UNCHANGED <<now, running, th, msgvars, session_keys, pfs_destroyed, pfs_sent>>
    /\ UNCHANGED <<loopvars, roomvars>>
    /\ UNCHANGED <<libvars, exchange, queue>>

\* encrypt_with_ephemeral_key: generates a key if the dict holds none for the
\* session id, then encrypts with the key of the session
EncryptWithEphemeralKey(s, message) ==
    /\ pfs_ret.n < MaxCalls
    /\ pfs[s] = {} => pfs_made < MaxEphemeral
    /\ LET ephemeral_key == IF pfs[s] = {} THEN GenerateAesKey(pfs_made)
                            ELSE CHOOSE k \in pfs[s] : TRUE
           e == AesEncryptEntry(Utf8Encode(message), ephemeral_key,
                                Cardinality(gcm) + 1)
       IN  /\ pfs' = [pfs EXCEPT ![s] = {ephemeral_key}]
           /\ pfs_made' = IF pfs[s] = {} THEN pfs_made + 1 ELSE pfs_made
           /\ gcm' = gcm \cup {e}
           /\ pfs_sent' = pfs_sent \cup
                  {[session_id |-> s, message |-> message,
                    encrypted_message |-> AesEncrypted(e), live |-> TRUE]}
           /\ pfs_ret' = Called("encrypt", s, AesEncrypted(e))
    /\ UNCHANGED <<now, running, th, msgvars, session_keys, pfs_destroyed>>
    /\ UNCHANGED <<loopvars, roomvars>>
    /\ UNCHANGED <<oaep, exchange, queue>>

\* a decryption that returns the empty str for a session id the dict does
\* not hold
EphemeralDecryptLenient(keys, log, encrypted_message, s) ==
    IF keys[s] = {} THEN <<>>
    ELSE LET decrypted_message ==
                 AesDecrypt(log, encrypted_message, CHOOSE k \in keys[s] : TRUE)
         IN  IF decrypted_message = Failed THEN Failed
             ELSE Utf8Decode(decrypted_message)

\* what decrypt_with_ephemeral_key returns: it raises if the dict holds no key
\* for the session id, else decrypts with the key of the session
EphemeralDecrypt(keys, log, encrypted_message, s) ==
    IF keys[s] = {} THEN Failed
    ELSE LET decrypted_message ==
                 AesDecrypt(log, encrypted_message, CHOOSE k \in keys[s] : TRUE)
         IN  IF decrypted_message = Failed THEN Failed
             ELSE Utf8Decode(decrypted_message)

\* decrypt_with_ephemeral_key
DecryptWithEphemeralKey(s, encrypted_message) ==
    /\ pfs_ret.n < MaxCalls
    /\ pfs_ret' = Called("decrypt", s,
                         EphemeralDecrypt(pfs, gcm, encrypted_message, s))
    /\ UNCHANGED <<now, running, th, msgvars, session_keys, pfs, pfs_made>>
    /\ UNCHANGED <<loopvars, roomvars>>
    /\ UNCHANGED <<pfs_destroyed, pfs_sent, libvars, exchange, queue>>

\* PerfectForwardSecrecy.destroy_session_key: destroy_key, then del of the
\* entry; the ciphertexts of the session are from then on those of a session
\* that has ended
PfsDestroySessionKey(s) ==
    /\ pfs[s] # {}
    /\ pfs' = [pfs EXCEPT ![s] = {}]
    /\ pfs_destroyed' = pfs_destroyed \cup {s}
    /\ pfs_sent' = {[c EXCEPT !.live = c.live /\ c.session_id # s] : c \in pfs_sent}
    /\ UNCHANGED <<now, running, th, msgvars, session_keys, pfs_made, pfs_ret>>
    /\ UNCHANGED <<loopvars, roomvars>>
    /\ UNCHANGED <<libvars, exchange, queue>>

\* ---- MessageScheduler.start and stop, and the threads they create

\* start(), to its test: `if self.running: return`
StartTest(c) ==
    /\ start_pc[c] = "idle"
    /\ starts < MaxStarts
    /\ starts' = starts + 1
    /\ start_pc' = [start_pc EXCEPT ![c] = IF running THEN "idle" ELSE "set"]
    /\ UNCHANGED <<running, loop_threads>>
    /\ UNCHANGED <<now, th, msgvars, session_keys, pfsvars, libvars, exchange, queue>>
    /\ UNCHANGED roomvars

\* start(), after the test: self.running = True, then the two threads are
\* created and started, each at the test of its while loop
StartSet(c) ==
    /\ start_pc[c] = "set"
    /\ running' = TRUE
    /\ loop_threads' = loop_threads \o <<[target |-> "scheduler", pc |-> "test"],
                                         [target |-> "cleanup", pc |-> "test"]>>
    /\ start_pc' = [start_pc EXCEPT ![c] = "idle"]
    /\ UNCHANGED starts
    /\ UNCHANGED <<now, th, msgvars, session_keys, pfsvars, libvars, exchange, queue>>
    /\ UNCHANGED roomvars

\* stop(): self.running = False; the two join(timeout=5) return whether or not
\* the thread they wait for has ended
Stop(c) ==
    /\ start_pc[c] = "idle"
    /\ running' = FALSE
    /\ UNCHANGED <<loop_threads, start_pc, starts>>
    /\ UNCHANGED <<now, th, msgvars, session_keys, pfsvars, libvars, exchange, queue>>
    /\ UNCHANGED roomvars

\* a loop whose test never fails
RunLoopForever(i) ==
    /\ i \in DOMAIN loop_threads
    /\ loop_threads[i].pc \in {"test", "body"}
    /\ loop_threads' = [loop_threads EXCEPT ![i].pc =
           IF loop_threads[i].pc = "test" THEN "body" ELSE "test"]
    /\ UNCHANGED <<running, start_pc, starts>>
    /\ UNCHANGED <<now, th, msgvars, session_keys, pfsvars, libvars, exchange, queue>>
    /\ UNCHANGED roomvars

\* _run_scheduler and _run_cleanup, one step of thread i: the test of
\* `while self.running` (the thread ends when it fails), or the body of the
\* loop with the sleep that follows it
RunLoop(i) ==
    /\ i \in DOMAIN loop_threads
    /\ loop_threads[i].pc \in {"test", "body"}
    /\ loop_threads' = [loop_threads EXCEPT ![i].pc =
           IF loop_threads[i].pc = "test"
           THEN (IF running THEN "body" ELSE "exited")
           ELSE "test"]
    /\ UNCHANGED <<running, start_pc, starts>>
    /\ UNCHANGED <<now, th, msgvars, session_keys, pfsvars, libvars, exchange, queue>>
    /\ UNCHANGED roomvars

\* ---- the chat rooms

\* create_chat_room: ChatRoom(created_by = the caller, max_members = the value of
\* the request), then Database.create_chat_room
CreateChatRoom(user, max_members) ==
    /\ \E room \in 1..NumRooms :
           /\ chat_rooms[room].st = "none"
           /\ \A other \in 1..NumRooms : other < room => chat_rooms[other].st = "stored"
           /\ chat_rooms' = [chat_rooms EXCEPT ![room] =
                  [st |-> "stored", max_members |-> max_members, members |-> {user}]]
    /\ UNCHANGED join
    /\ UNCHANGED <<now, running, th, msgvars, session_keys, pfsvars, libvars, exchange, queue>>
    /\ UNCHANGED loopvars

\* join_chat_room and join_chat_room_by_key (which differ in the lookup of the
\* room only), to the call of db.join_chat_room: the room is found, the caller
\* is not a member, and the room read by the handler has space
JoinChatRoom(r, user, room) ==
    /\ join[r].pc = "idle"
    /\ chat_rooms[room].st = "stored"
    /\ user \notin chat_rooms[room].members
    /\ Cardinality(chat_rooms[room].members) < chat_rooms[room].max_members
    /\ join' = [join EXCEPT ![r] = [pc |-> "join", user |-> user, room |-> room]]
    /\ UNCHANGED chat_rooms
    /\ UNCHANGED <<now, running, th, msgvars, session_keys, pfsvars, libvars, exchange, queue>>
    /\ UNCHANGED loopvars

\* Database.join_chat_room, to its update: get_chat_room_by_id and the tests on
\* the document it returns
DbJoinChatRoom(r) ==
    /\ join[r].pc = "join"
    /\ LET doc == chat_rooms[join[r].room]
       IN  join' = [join EXCEPT ![r] =
               IF /\ doc.st = "stored"
                  /\ Cardinality(doc.members) < doc.max_members
                  /\ join[r].user \notin doc.members
               THEN [join[r] EXCEPT !.pc = "add"]
               ELSE [pc |-> "idle", user |-> "", room |-> 0]]
    /\ UNCHANGED chat_rooms
    /\ UNCHANGED <<now, running, th, msgvars, session_keys, pfsvars, libvars, exchange, queue>>
    /\ UNCHANGED loopvars

\* Database.join_chat_room: update_one {'$addToSet': {'members': user_id}}
AddToSet(r) ==
    /\ join[r].pc = "add"
    /\ chat_rooms' = [chat_rooms EXCEPT ![join[r].room].members =
           IF chat_rooms[join[r].room].st = "stored" THEN @ \cup {join[r].user} ELSE @]
    /\ join' = [join EXCEPT ![r] = [pc |-> "idle", user |-> "", room |-> 0]]
    /\ UNCHANGED <<now, running, th, msgvars, session_keys, pfsvars, libvars, exchange, queue>>
    /\ UNCHANGED loopvars

\* between two operations: no handler, pass over the cache or sweep is under way
Quiet(t) == th[t].pc \in {"none", "idle", "loop", "run_pending"}

Others(t) == \A u \in Threads \ {t} : Quiet(u)

AllQuiet == \A t \in Threads : Quiet(t)

\* the request contexts are interchangeable, so the second one takes a request
\* only while the first one is busy
Free(r) == r = "r2" => ~At("r1", "idle")

\* the operations run one at a time, each to its end: an operation begins only
\* while no other is under way, so that the one under way goes on alone
Next ==
    \/ AllQuiet /\ Tick
    \/ AllQuiet /\ Start
    \/ AllQuiet /\ Restart
    \/ \E r \in Requests :
           Free(r) /\ Others(r) /\ \E d \in SendTimes, ro \in BOOLEAN :
                                      SendMessage(r, Sender, Recipient, d, ro)
    \/ \E r \in Requests : SendSchedule(r)
    \/ \E r \in Requests :
           Free(r) /\ Others(r) /\ \E id \in MsgIds, d \in Deltas :
                                      ScheduleDestruction(r, id, d)
    \/ \E r \in Requests : ScheduleDbUpdate(r)
    \/ \E r \in Requests :
           Free(r) /\ Others(r) /\ \E id \in MsgIds : CancelDestruction(r, id)
    \/ \E r \in Requests : CancelDel(r)
    \/ \E r \in Requests : CancelDbUpdate(r)
    \/ \E r \in Requests :
           Free(r) /\ Others(r) /\ \E u \in Users, id \in MsgIds :
                                      DeleteMessage(r, u, id)
    \/ \E r \in Requests : DeleteMessageFlag(r)
    \/ \E r \in Requests :
           Free(r) /\ Others(r) /\ \E u \in Users : ReceiveMessages(r, u)
    \/ \E r \in Requests : ReceiveRead(r)
    \/ \E r \in Requests :
           Free(r) /\ Others(r) /\ \E u \in Users : DeleteUser(r, u)
    \/ Others("scheduler") /\ CheckScheduledDestructions
    \/ DestroyMessage
    \/ DestroyMessageFlag
    \/ DestroyMessageFinish
    \/ DestroyCacheDel
    \/ Others("scheduler") /\ RunPendingIdle
    \/ Others("scheduler") /\ RunPendingCleanup
    \/ Others("cleanup") /\ RunCleanup
    \/ \E t \in Background : CleanupExpiredMessage(t)

\* the threads interleave at every access to shared state
ConcNext ==
    \/ Tick
    \/ Start
    \/ Restart
    \/ \E r \in Requests :
           Free(r) /\ \E d \in SendTimes, ro \in BOOLEAN :
                         SendMessage(r, Sender, Recipient, d, ro)
    \/ \E r \in Requests : SendSchedule(r)
    \/ \E r \in Requests :
           Free(r) /\ \E id \in MsgIds, d \in Deltas :
                         ScheduleDestruction(r, id, d)
    \/ \E r \in Requests : ScheduleDbUpdate(r)
    \/ \E r \in Requests :
           Free(r) /\ \E id \in MsgIds : CancelDestruction(r, id)
    \/ \E r \in Requests : CancelDel(r)
    \/ \E r \in Requests : CancelDbUpdate(r)
    \/ \E r \in Requests :
           Free(r) /\ \E u \in Users, id \in MsgIds :
                         DeleteMessage(r, u, id)
    \/ \E r \in Requests : DeleteMessageFlag(r)
    \/ \E r \in Requests :
           Free(r) /\ \E u \in Users : ReceiveMessages(r, u)
    \/ \E r \in Requests : ReceiveRead(r)
    \/ \E r \in Requests :
           Free(r) /\ \E u \in Users : DeleteUser(r, u)
    \/ CheckScheduledDestructions
    \/ DestroyMessage
    \/ DestroyMessageFlag
    \/ DestroyMessageFinish
    \/ DestroyCacheDel
    \/ RunPendingIdle
    \/ RunPendingCleanup
    \/ RunCleanup
    \/ \E t \in Background : CleanupExpiredMessage(t)

Spec == Init /\ [][Next]_vars

ConcSpec == Init /\ [][ConcNext]_vars

\* the operations one at a time, with the reads of a conversation
\* (get_conversation changes nothing in the store or the cache)
ReadNext ==
    \/ Next
    \/ \E r \in Requests :
           Free(r) /\ Others(r) /\ \E u \in Users, o \in Users :
                                      GetConversation(r, u, o)

ReadSpec == Init /\ [][ReadNext]_vars

\* the operations one at a time, and documents damaged at any moment
KeyFaultNext ==
    \/ Next
    \/ \E id \in MsgIds, key \in MalformedKeys : CorruptSessionKey(id, key)

KeyFaultSpec == Init /\ [][KeyFaultNext]_vars

\* the operations one at a time, and outages of the store at any moment
StoreFaultNext ==
    \/ Next
    \/ StorageFails
    \/ StorageRecovers

StoreFaultSpec == Init /\ [][StoreFaultNext]_vars

\* receive_messages over any store of messages: the requests interleave, and
\* documents are damaged at any moment
InboxNext ==
    \/ \E r \in Requests : Free(r) /\ \E u \in Users : ReceiveMessages(r, u)
    \/ \E r \in Requests : ReceiveRead(r)
    \/ \E id \in MsgIds, key \in MalformedKeys : CorruptSessionKey(id, key)

InboxSpec == QueueInit /\ [][InboxNext]_vars

\* the strings handed to decrypt_with_ephemeral_key: the ciphertexts returned
\* so far, and the empty string
Received == {c.encrypted_message : c \in pfs_sent} \cup {<<>>}

\* the session keys: the operations of the store on db.session_keys and the
\* key sweep of the cleanup loop, with messages that arrive in the store
KeyNext ==
    \/ Tick
    \/ Start
    \/ \E k \in KeyIds, e \in {{}, {now + 1}} : CreateSessionKey(k, e)
    \/ \E k \in KeyIds : DbDestroySessionKey(k)
    \/ DbCleanupExpiredKeys
    \/ CleanupExpiredKeysFind
    \/ CleanupExpiredKey
    \/ SendMessage("r1", Sender, Recipient, 0, FALSE)

KeySpec == Init /\ [][KeyNext]_vars

\* the ephemeral keys: the operations of PerfectForwardSecrecy
PfsNext ==
    \/ \E s \in Sessions : GenerateEphemeralKey(s)
    \/ \E s \in Sessions, m \in SessionMessages : EncryptWithEphemeralKey(s, m)
    \/ \E s \in Sessions, c \in Received : DecryptWithEphemeralKey(s, c)
    \/ \E s \in Sessions : PfsDestroySessionKey(s)

PfsSpec == Init /\ [][PfsNext]_vars

\* one message through encrypt_message, what may happen to the two strings on
\* their way, and decrypt_message
HybridNext ==
    \/ \E message \in Plaintexts, a \in KeyPairs : EncryptMessageCall(message, a)
    \/ \E p \in 1..(IvSize + TagSize + 3 * MaxPlain) : TamperMessage(p)
    \/ \E len \in 0..(IvSize + TagSize - 1) : TruncateMessage(len)
    \/ \E p \in ChangedKeyBytes : TamperSessionKey(p)
    \/ \E b \in KeyPairs : DecryptMessageCall(b)

HybridSpec == Init /\ [][HybridNext]_vars

\* the operation that is under way takes its next step
GoesOn ==
    \/ \E r \in Requests : \/ SendSchedule(r) \/ ScheduleDbUpdate(r)
                           \/ CancelDel(r) \/ CancelDbUpdate(r)
                           \/ DeleteMessageFlag(r) \/ ReceiveRead(r)
    \/ DestroyMessage \/ DestroyMessageFlag \/ DestroyMessageFinish
    \/ DestroyCacheDel
    \/ \E t \in Background : CleanupExpiredMessage(t)

\* The threads run: a handler, a pass over the cache or a sweep that is under
\* way goes on to its end, and the cleanup loop (while self.running: sweep,
\* sleep 30) starts its sweep again and again.
Fairness ==
    /\ WF_vars(GoesOn)
    /\ SF_vars(Others("cleanup") /\ RunCleanup)

LiveSpec == Spec /\ Fairness

\* the scheduler loop too (while self.running: check, run_pending, sleep 1)
\* goes round again and again
SchedulerLiveSpec ==
    /\ LiveSpec
    /\ SF_vars(Others("scheduler") /\ CheckScheduledDestructions)
    /\ SF_vars(Others("scheduler") /\ (RunPendingIdle \/ RunPendingCleanup))

\* the loops keep running through the outages, each of which ends
StoreFaultLiveSpec == StoreFaultSpec /\ Fairness /\ WF_vars(StorageRecovers)

\* start() and stop() called from any thread, and the loops of the threads
\* created; every thread created goes on running
LoopNext ==
    \/ \E c \in Requests : StartTest(c)
    \/ \E c \in Requests : StartSet(c)
    \/ \E c \in Requests : Stop(c)
    \/ \E i \in 1..(2 * MaxStarts) : RunLoop(i)

LoopSpec ==
    Init /\ [][LoopNext]_vars /\ \A i \in 1..(2 * MaxStarts) : WF_vars(RunLoop(i))

\* the requests on the chat rooms, interleaved at every access to the store
RoomNext ==
    \/ \E u \in Identities, m \in 0..MaxRoomSize : CreateChatRoom(u, m)
    \/ \E r \in Requests, u \in Identities, room \in 1..NumRooms : JoinChatRoom(r, u, room)
    \/ \E r \in Requests : DbJoinChatRoom(r)
    \/ \E r \in Requests : AddToSet(r)

RoomSpec == Init /\ [][RoomNext]_vars

\* ---- properties

\* the audit records of message id
LogCount(logs, id) == Cardinality({i \in 1..Len(logs) : logs[i].message_id = id})

\* thread t takes a step of its own (start() and a restart set every thread)
Moves(t) == th'[t] # th[t] /\ running' = running


\* C2: over the whole life of the system destroy_key is invoked at most once
\* on the session key of any one message, whatever triggers fire and however
\* often.
C2_DestroyKeyAtMostOnce == \A id \in MsgIds : Len(destroy_key_calls[id]) <= 1

\* C3: a destruction trigger applied to a message that is already deleted is a
\* no-op: its record keeps its deleted_at, no audit record is added for it and
\* destroy_key is not invoked for it.
C3_TriggerOnDeletedIsNoOp ==
    [][\A id \in MsgIds :
          (Stored(messages, id) /\ messages[id].is_deleted) =>
              /\ destroy_key_calls'[id] = destroy_key_calls[id]
              /\ LogCount(system_logs', id) = LogCount(system_logs, id)
              /\ Stored(messages', id) =>
                     /\ messages'[id].is_deleted
                     /\ messages'[id].deleted_at = messages[id].deleted_at]_vars

C5_NeverReturned ==
    /\ \A u \in Users :
          LET pending == GetPendingMessages(messages, u, now)
          IN  \A i \in 1..Len(pending) : ~messages[pending[i]].is_deleted
    /\ \A u1 \in Users, u2 \in Users :
          LET conv == GetConversationMessages(messages, u1, u2)
          IN  \A i \in 1..Len(conv) : ~messages[conv[i]].is_deleted

\* C5: once the record of a message has is_deleted = TRUE no operation sets it
\* back to FALSE, and no deleted message is among the results of
\* get_pending_messages or get_conversation_messages.
C5_DeletedIsTerminal ==
    /\ [][\A id \in MsgIds :
             (Stored(messages, id) /\ messages[id].is_deleted /\ Stored(messages', id))
                 => messages'[id].is_deleted]_vars
    /\ []C5_NeverReturned

\* a message flagged by the sweep, whose deadline a later cancel_destruction
\* has removed: an operation has written the record after the deletion
C5_Witness ==
    \E id \in MsgIds :
        /\ Stored(messages, id)
        /\ messages[id].is_deleted
        /\ destroy_key_calls[id] = <<"sweep">>
        /\ messages[id].destruct_at = {}

\* C8: the persisted deadline of a message is strictly after its creation
\* timestamp, whatever integer delta schedule_destruction was called with.
C8_DeadlineAfterTimestamp ==
    \A id \in MsgIds :
        Stored(messages, id) =>
            \A d \in messages[id].destruct_at : d > messages[id].timestamp

\* C9: schedule_destruction with delta <= 0 is rejected: the call that computes
\* a deadline at or before the time of the call changes neither the cache nor
\* the records.
C9_NonPositiveDeltaRejected ==
    [][\A r \in Requests :
          (Moves(r) /\ th[r].pc # "schedule_db" /\ th'[r].pc = "schedule_db"
                    /\ th'[r].n <= now) =>
              /\ scheduled_messages' = scheduled_messages
              /\ messages' = messages]_vars

\* the non-deleted messages whose persisted deadline is strictly before t
StrictlyOverdue(t) ==
    {id \in MsgIds : /\ Stored(messages, id)
                     /\ ~messages[id].is_deleted
                     /\ \E d \in messages[id].destruct_at : d < t}

\* C6: one pass of _cleanup_expired_messages at time now selects exactly the
\* non-deleted messages whose persisted deadline is strictly before now, sets
\* is_deleted on each of them, one at a time, and leaves every other message
\* (deadline at or after now, no deadline, already deleted) as it was.
C6_SweepFlagsExactlyTheOverdue ==
    [][\A t \in Background :
          /\ (Moves(t) /\ th[t].pc # "cleanup" /\ th'[t].pc = "cleanup") =>
                 /\ Range(th'[t].list) = StrictlyOverdue(now)
                 /\ Len(th'[t].list) = Cardinality(StrictlyOverdue(now))
                 /\ th'[t].n = now
                 /\ messages' = messages
          /\ (Moves(t) /\ th[t].pc \in {"loop", "run_pending"} /\ th'[t].pc = "loop") =>
                 messages' = messages
          /\ (Moves(t) /\ th[t].pc = "cleanup") =>
                 LET id == Head(th[t].list)
                 IN  /\ \A j \in MsgIds \ {id} : messages'[j] = messages[j]
                     /\ Stored(messages, id) =>
                            /\ messages'[id].is_deleted
                            /\ messages'[id].deleted_at = {th[t].n}
                            /\ [messages' EXCEPT
                                   ![id].is_deleted = messages[id].is_deleted,
                                   ![id].deleted_at = messages[id].deleted_at]
                                 = messages
                     /\ ~Stored(messages, id) => messages'[id] = messages[id]
                     /\ IF Tail(th[t].list) = <<>>
                        THEN th'[t].pc = "loop"
                        ELSE th'[t].pc = "cleanup" /\ th'[t].list = Tail(th[t].list)
                                                   /\ th'[t].n = th[t].n]_vars

\* the sweep, and nothing else, has flagged one message at the time that is
\* the deadline of another message, which existed then and is as it was
C6_Witness ==
    \E i \in MsgIds, j \in MsgIds :
        /\ Stored(messages, i) /\ messages[i].is_deleted
        /\ destroy_key_calls[i] = <<"sweep">>
        /\ Stored(messages, j) /\ ~messages[j].is_deleted
        /\ destroy_key_calls[j] = <<>>
        /\ \E n \in messages[i].deleted_at :
               messages[j].destruct_at = {n} /\ messages[j].timestamp < n

\* C7: the persisted deadline alone is enough.  schedule_destruction returns
\* with the deadline in the record; a restart empties the cache and keeps the
\* records; a sweep after the deadline selects the message although the cache
\* has no entry for it, and sets its is_deleted.
C7_PersistedDeadlineSuffices ==
    [][/\ \A r \in Requests :
             (Moves(r) /\ th[r].pc = "schedule_db" /\ th'[r].pc = "idle") =>
                 (Stored(messages', th[r].mid) =>
                      messages'[th[r].mid].destruct_at = {th[r].n})
       /\ (running /\ ~running') =>
              (scheduled_messages' = <<>> /\ messages' = messages)
       /\ \A t \in Background :
             /\ (Moves(t) /\ th[t].pc # "cleanup" /\ th'[t].pc = "cleanup") =>
                    \A id \in StrictlyOverdue(now) :
                        ~CacheHas(scheduled_messages, id) => id \in Range(th'[t].list)
             /\ (Moves(t) /\ th[t].pc = "cleanup") =>
                    LET id == Head(th[t].list)
                    IN  Stored(messages, id) => messages'[id].is_deleted]_vars

\* after a restart has emptied the cache a sweep is under way: it has flagged
\* one message that had a persisted deadline and holds the next one
C7_Witness ==
    \E t \in Background, i \in MsgIds :
        /\ th[t].pc = "cleanup"
        /\ scheduled_messages = <<>>
        /\ Stored(messages, i) /\ messages[i].is_deleted
        /\ destroy_key_calls[i] = <<"sweep">>
        /\ messages[i].deleted_at = {th[t].n}
        /\ \E d \in messages[i].destruct_at : d < th[t].n
        /\ \E j \in Range(th[t].list) : j # i /\ ~messages[j].is_deleted

\* C4: _destroy_message is idempotent.  When it runs on a message that an
\* earlier run of it has destroyed, the state it leaves equals the state the
\* first run left: the record of the message (deleted_at included) and its
\* audit records are unchanged, and the cache has no entry for it.
C4_DestroyTwiceLeavesSameState ==
    [][\A id \in MsgIds :
          (/\ Moves("scheduler")
           /\ th["scheduler"].pc \in {"destroy", "destroy_flag", "destroy_finish",
                                      "destroy_del"}
           /\ Head(th["scheduler"].list) = id
           /\ Stored(messages, id) /\ messages[id].is_deleted
           /\ "cache" \in Range(destroy_key_calls[id])) =>
              /\ messages'[id] = messages[id]
              /\ LogCount(system_logs', id) = LogCount(system_logs, id)
              /\ (/\ th["scheduler"].pc \in {"destroy_finish", "destroy_del"}
                  /\ th'["scheduler"].pc # "destroy_del") =>
                     ~CacheHas(scheduled_messages', id)]_vars

\* a destroy of message id is under way: id is in the list a pass works on
DestroyInFlight(id) ==
    \E t \in Background :
        /\ th[t].pc \in {"destroy", "destroy_flag", "destroy_finish", "destroy_del",
                         "cleanup"}
        /\ id \in Range(th[t].list)

\* a call of schedule_destruction for message id is under way
ScheduleInFlight(id) ==
    \E q \in Requests :
        th[q].pc \in {"send_schedule", "schedule_db"} /\ th[q].mid = id

\* C10: when cancel_destruction(id) returns, with no destroy of id in flight
\* and no schedule_destruction(id) still to complete, id has no persisted
\* deadline and no cache entry (so that no later pass over the cache and no
\* later sweep can select it).
C10_CancelLeavesNothingScheduled ==
    [][\A r \in Requests :
          (/\ Moves(r) /\ th[r].pc \in {"cancel_del", "cancel_db"} /\ th'[r].pc = "idle"
           /\ ~DestroyInFlight(th[r].mid)
           /\ ~ScheduleInFlight(th[r].mid)) =>
              /\ ~CacheHas(scheduled_messages', th[r].mid)
              /\ Stored(messages', th[r].mid) =>
                     messages'[th[r].mid].destruct_at = {}]_vars

DestroyReturns(id) ==
    /\ Moves("scheduler")
    /\ th["scheduler"].pc \in {"destroy_finish", "destroy_del"}
    /\ th'["scheduler"].pc # "destroy_del"
    /\ Head(th["scheduler"].list) = id

\* C11: cancel_destruction(id) interleaved with a _destroy_message(id) that has
\* already selected id is harmless: the destroy runs to completion, that is,
\* when it returns the message (if it still exists) is flagged deleted, the
\* audit record of this destruction has been appended, and the cache holds no
\* entry for id.
C11_CancelDuringDestroyHarmless ==
    [][\A id \in MsgIds :
          DestroyReturns(id) =>
              /\ Stored(messages', id) => messages'[id].is_deleted
              /\ LogCount(system_logs', id) = LogCount(system_logs, id) + 1
              /\ ~CacheHas(scheduled_messages', id)]_vars

C13_ReadOnceDestroyedOnOpen ==
    [][\A id \in MsgIds :
          (/\ Stored(messages, id) /\ messages[id].read_once
           /\ opened'[id] # opened[id]) =>
              /\ Stored(messages', id) => messages'[id].is_deleted
              /\ Len(opened'[id]) <= 1]_vars

\* the fields of a destruction audit record, and of its metadata
AuditFields ==
    {"event_type", "message_id", "sender_id", "recipient_id", "destruction_reason",
     "timestamp", "metadata"}

AuditMetadataFields == {"self_destruct_time", "read_once", "message_length"}

\* C14: when _destroy_message(id) returns, for a message that exists, the
\* message is flagged deleted, the cache has no entry for id, destroy_key has
\* been called on its session key, and this run has appended one audit record
\* for id, which carries the reason, the time and the size metadata and no
\* content of the message.
C14_DestroyPostcondition ==
    [][\A id \in MsgIds :
          (DestroyReturns(id) /\ Stored(messages', id)) =>
              /\ messages'[id].is_deleted
              /\ ~CacheHas(scheduled_messages', id)
              /\ "cache" \in Range(destroy_key_calls'[id])
              /\ Len(system_logs') = Len(system_logs) + 1
              /\ LET rec == system_logs'[Len(system_logs')]
                 IN  /\ system_logs' = Append(system_logs, rec)
                     /\ rec.message_id = id
                     /\ DOMAIN rec = AuditFields
                     /\ DOMAIN rec.metadata = AuditMetadataFields
                     /\ rec.destruction_reason = "scheduled_self_destruct"
                     /\ rec.timestamp = now
                     /\ rec.metadata.message_length = Len(messages'[id].content)]_vars

\* C15: _destroy_message on an id for which get_message_by_id finds no
\* document (never stored, or removed by delete_user) returns at once: the
\* pass goes on with its next item, and the messages, the audit log and the
\* keys are as they were.
C15_NotFoundIsNoOp ==
    [][\A id \in MsgIds :
          (/\ Moves("scheduler")
           /\ th["scheduler"].pc = "destroy"
           /\ Head(th["scheduler"].list) = id
           /\ ~Stored(messages, id)) =>
              /\ messages' = messages
              /\ system_logs' = system_logs
              /\ destroy_key_calls' = destroy_key_calls
              /\ th'["scheduler"].pc \in {"destroy", "run_pending"}
              /\ th'["scheduler"].list = Tail(th["scheduler"].list)]_vars

\* a pass over the cache has met an id without a document, has left its entry
\* and the audit log as they were, and is at its next item
C15_Witness ==
    \E id \in MsgIds, other \in MsgIds :
        /\ id # other
        /\ th["scheduler"].pc = "destroy"
        /\ th["scheduler"].list = <<other>>
        /\ ~Stored(messages, id)
        /\ id \in Range(DueIds(scheduled_messages, now))
        /\ DueIds(scheduled_messages, now)[1] = id
        /\ system_logs = <<>>

\* thread t is at the step of a destroy routine (pc) that calls destroy_key for
\* message id, and the handle in the document it fetched is malformed
DestroysWithMalformedKey(t, pc, id) ==
    /\ Moves(t)
    /\ th[t].pc = pc
    /\ id \in DOMAIN th[t].docs
    /\ ~WellFormed(th[t].docs[id].session_key)
    /\ Stored(messages, id)

\* C16: when the session_key of a message is malformed, so that the key cannot
\* be destroyed, each destroy routine still flags the message deleted and goes
\* on as after a successful key destruction: _destroy_message goes on to its
\* cache removal, the sweep writes its audit record and takes its next item,
\* the delete endpoint returns.
C16_MalformedKeyStillDeleted ==
    [][\A id \in MsgIds :
          /\ (DestroysWithMalformedKey("scheduler", "destroy_flag", id)
                /\ Head(th["scheduler"].list) = id) =>
                 /\ messages'[id].is_deleted
                 /\ th'["scheduler"].pc = "destroy_finish"
          /\ \A t \in Background :
                (DestroysWithMalformedKey(t, "cleanup", id) /\ Head(th[t].list) = id) =>
                    /\ messages'[id].is_deleted
                    /\ LogCount(system_logs', id) = LogCount(system_logs, id) + 1
          /\ \A r \in Requests :
                (DestroysWithMalformedKey(r, "delete", id) /\ th[r].mid = id) =>
                    /\ messages'[id].is_deleted
                    /\ th'[r].pc = "idle"]_vars

\* _destroy_message has flagged a message whose fetched handle is an integer
C16_Witness ==
    \E id \in MsgIds :
        /\ th["scheduler"].pc = "destroy_finish"
        /\ Head(th["scheduler"].list) = id
        /\ th["scheduler"].docs[id].session_key = <<"int">>
        /\ Stored(messages, id) /\ messages[id].is_deleted
        /\ destroy_key_calls[id] = <<"cache">>

\* C17: within one pass of the sweep, and of the pass over the cache, a
\* failure on one item does not keep the pass from its remaining items: after
\* an item whose processing failed (the store unreachable) the pass goes on
\* with the rest of its list, and every item it processes with the store
\* reachable is flagged deleted, whatever happened to the items before it.
C17_SweepFaultIsolation ==
    [][/\ \A t \in Background :
             (Moves(t) /\ th[t].pc = "cleanup") =>
                 /\ th'[t].list = Tail(th[t].list)
                 /\ Tail(th[t].list) # <<>> => th'[t].pc = "cleanup"
                 /\ \A i \in Range(Tail(th[t].list)) :
                        i \in DOMAIN th'[t].docs /\ th'[t].docs[i] = th[t].docs[i]
                 /\ (db_up /\ Stored(messages, Head(th[t].list))) =>
                        messages'[Head(th[t].list)].is_deleted
       /\ (Moves("scheduler") /\ th["scheduler"].pc = "destroy") =>
              \/ /\ db_up /\ Stored(messages, Head(th["scheduler"].list))
                 /\ th'["scheduler"].pc = "destroy_flag"
                 /\ th'["scheduler"].list = th["scheduler"].list
              \/ /\ ~(db_up /\ Stored(messages, Head(th["scheduler"].list)))
                 /\ th'["scheduler"].list = Tail(th["scheduler"].list)
                 /\ Tail(th["scheduler"].list) # <<>> => th'["scheduler"].pc = "destroy"
       /\ (Moves("scheduler") /\ th["scheduler"].pc = "destroy_flag") =>
              /\ th'["scheduler"].pc = "destroy_finish"
              /\ th'["scheduler"].list = th["scheduler"].list
              /\ (db_up /\ Stored(messages, Head(th["scheduler"].list))) =>
                     messages'[Head(th["scheduler"].list)].is_deleted
       /\ (Moves("scheduler")
             /\ th["scheduler"].pc \in {"destroy_finish", "destroy_del"}
             /\ th'["scheduler"].pc # "destroy_del") =>
              /\ th'["scheduler"].list = Tail(th["scheduler"].list)
              /\ Tail(th["scheduler"].list) # <<>> => th'["scheduler"].pc = "destroy"
      ]_vars

\* a sweep whose first item failed during an outage is at its second item,
\* the store reachable again
C17_Witness ==
    \E t \in Background, id \in MsgIds, other \in MsgIds :
        /\ id # other
        /\ th[t].pc = "cleanup"
        /\ th[t].list = <<other>>
        /\ Expired(messages, id, th[t].n)
        /\ Expired(messages, other, th[t].n)
        /\ db_up
        /\ outages = 1

\* C18: an outage of the store during a sweep ends neither background loop:
\* no thread of the started scheduler stops, and while the loops run every
\* message that is overdue during an outage is eventually flagged deleted
\* (unless its deadline is cancelled or moved, or the message removed, first).
C18_LoopsSurviveOutage ==
    /\ [](\A t \in Background : th[t].pc # "dead")
    /\ \A id \in MsgIds :
           (running /\ ~db_up /\ id \in StrictlyOverdue(now))
               ~> (~running \/ (db_up /\ id \notin StrictlyOverdue(now)))

\* a sweep met the outage at the update of a message (its key destroyed, the
\* document not flagged), and a later sweep has flagged the message
C18_Witness ==
    \E id \in MsgIds :
        /\ running /\ db_up /\ outages = 1
        /\ Stored(messages, id) /\ messages[id].is_deleted
        /\ destroy_key_calls[id] = <<"sweep", "sweep">>
        /\ LogCount(system_logs, id) = 1

\* C19: the document of a session key is destroyed once and for all: its
\* is_destroyed never goes back to FALSE, and Database.destroy_session_key or
\* a key sweep applied to a document that is destroyed already leaves the
\* document as it is, destroyed_at included.
C19_DestroyedKeyUnchanged ==
    [][\A k \in KeyIds :
          (session_keys[k].st = "stored" /\ session_keys[k].is_destroyed) =>
              session_keys'[k] = session_keys[k]]_vars

\* C20: a session id whose ephemeral key destroy_session_key has removed is
\* never active again: no operation of PerfectForwardSecrecy stores a key
\* under it.
C20_DestroyedSessionStaysInactive ==
    \A s \in pfs_destroyed : pfs[s] = {}

\* C24: hybrid round trip: for every plaintext and every key pair of
\* generate_key_pair, decrypt_message applied with the private key of the pair
\* to the two strings encrypt_message returned for the public key returns the
\* plaintext.
C24_HybridRoundTrip ==
    (/\ exchange.pc = "decrypted"
     /\ exchange.tampered = "no"
     /\ exchange.opened_with = exchange.pair)
        => exchange.returned = exchange.message

\* a message of characters of two and of three bytes has come back from
\* decrypt_message
C24_Witness ==
    /\ exchange.pc = "decrypted"
    /\ exchange.tampered = "no"
    /\ exchange.opened_with = exchange.pair
    /\ exchange.message = <<8364, 233>>
    /\ exchange.returned = <<8364, 233>>

\* C25: tamper detection: once any byte of the encrypted message (iv, tag or
\* ciphertext) or of the encrypted session key has been changed, or the
\* encrypted message cut below the 28 bytes of iv and tag, decrypt_message fails
\* with an error; it returns no plaintext, equal to the original or not.
C25_TamperDetected ==
    (exchange.pc = "decrypted" /\ exchange.tampered # "no")
        => exchange.returned = Failed

\* decrypt_message has failed, with the right private key, on an encrypted
\* message one byte of which was changed
C25_Witness ==
    /\ exchange.pc = "decrypted"
    /\ exchange.tampered = "message"
    /\ exchange.opened_with = exchange.pair
    /\ Len(exchange.message) = MaxPlain
    /\ exchange.returned = Failed

\* C26: key-mismatch rejection: decrypt_message with the private key of another
\* pair than the one encrypt_message got the public key of fails with an error
\* and returns no plaintext.
C26_KeyMismatchRejected ==
    (exchange.pc = "decrypted" /\ exchange.opened_with # exchange.pair)
        => exchange.returned = Failed

\* decrypt_message has failed on two untouched strings, with the private key of
\* the other pair
C26_Witness ==
    /\ exchange.pc = "decrypted"
    /\ exchange.tampered = "no"
    /\ exchange.opened_with # exchange.pair
    /\ exchange.message # <<>>
    /\ exchange.returned = Failed

\* the step is a call of method op of PerfectForwardSecrecy for a session id
\* the dict does not hold
CallOnAbsent(op) ==
    /\ pfs_ret'.n = pfs_ret.n + 1
    /\ pfs_ret'.op = op
    /\ pfs[pfs_ret'.session_id] = {}

\* C21: decrypt_with_ephemeral_key on a session id that is absent or destroyed
\* fails with an error and leaves the session map unchanged, whereas
\* encrypt_with_ephemeral_key on an absent session id creates the session and
\* succeeds.
C21_DecryptNeedsSessionEncryptCreates ==
    [][/\ CallOnAbsent("decrypt") => (~pfs_ret'.ok /\ pfs' = pfs)
       /\ CallOnAbsent("encrypt") =>
              (pfs_ret'.ok /\ pfs'[pfs_ret'.session_id] # {})]_vars

\* decrypt_with_ephemeral_key has failed on a ciphertext of a session that was
\* destroyed, and the dict still holds no key for it
C21_Witness ==
    /\ pfs_ret.op = "decrypt"
    /\ ~pfs_ret.ok
    /\ pfs_ret.session_id \in pfs_destroyed
    /\ pfs[pfs_ret.session_id] = {}
    /\ \E c \in pfs_sent : c.session_id = pfs_ret.session_id

\* C22: within a session's lifetime the session key is reused unchanged: from
\* the moment session s becomes active until destroy_session_key(s) its key
\* never changes under any sequence of PerfectForwardSecrecy calls, so every
\* ciphertext of encrypt_with_ephemeral_key(m, s) made in that interval decrypts
\* to m with decrypt_with_ephemeral_key at any later point of the interval.
C22_SessionKeyStable ==
    /\ [][\A s \in Sessions :
              (pfs[s] # {} /\ pfs'[s] # {}) => pfs'[s] = pfs[s]]_vars
    /\ [](\A c \in pfs_sent :
              c.live => EphemeralDecrypt(pfs, gcm, c.encrypted_message,
                                         c.session_id) = c.message)

\* C23: forward secrecy: destroy_session_key(s) removes the mapping for s, and
\* after it no sequence of operations, re-creating s included, lets
\* decrypt_with_ephemeral_key return the plaintext of a ciphertext made under s
\* before the destruction.
C23_ForwardSecrecy ==
    /\ [][\A s \in Sessions :
              (pfs[s] # {} /\ pfs'[s] # pfs[s] /\ pfs_ret' = pfs_ret)
                  => pfs'[s] = {}]_vars
    /\ [](\A c \in pfs_sent, s \in Sessions :
              ~c.live => EphemeralDecrypt(pfs, gcm, c.encrypted_message, s)
                             # c.message)

\* the session of the one ciphertext was destroyed and created again, and
\* decrypt_with_ephemeral_key has failed on the ciphertext
C23_Witness ==
    /\ Cardinality(pfs_sent) = 1
    /\ \E c \in pfs_sent :
           /\ ~c.live
           /\ pfs[c.session_id] # {}
           /\ pfs_ret.op = "decrypt"
           /\ pfs_ret.session_id = c.session_id
           /\ ~pfs_ret.ok

\* C27: after destroy_key(k) has returned for the session key k of a message,
\* the key is held nowhere that later operations reach: the session_key of the
\* message record no longer equals k, so that a later decryption of the message
\* cannot succeed.
C27_DestroyedKeyNotHeld ==
    \A id \in MsgIds :
        (Stored(messages, id) /\ destroy_key_calls[id] # <<>>)
            => /\ messages[id].session_key
                      # RsaEncrypt(id, messages[id].recipient_id)
               /\ DecryptRaises(messages[id].session_key)

\* C28: get_destruction_queue returns exactly the non-deleted messages whose
\* persisted deadline is strictly after the current time, ordered by ascending
\* deadline, each with time_remaining = deadline - now > 0; it is computed from
\* the durable store, whatever the in-memory cache holds.
C28_DestructionQueueExact ==
    queue.asked =>
        LET list == queue.list
        IN  /\ {list[i].message_id : i \in 1..Len(list)}
                   = {id \in MsgIds : /\ messages[id].st = "stored"
                                      /\ ~messages[id].is_deleted
                                      /\ \E d \in messages[id].destruct_at : d > now}
            /\ \A i, j \in 1..Len(list) :
                   i < j => /\ list[i].message_id # list[j].message_id
                            /\ list[i].time_remaining <= list[j].time_remaining
            /\ \A i \in 1..Len(list) :
                   /\ list[i].time_remaining > 0
                   /\ messages[list[i].message_id].destruct_at
                          = {now + list[i].time_remaining}

\* the queue holds two messages, the later stored first, while the cache holds
\* the second of them only, with a deadline that has passed
C28_Witness ==
    /\ queue.asked
    /\ Len(queue.list) = 2
    /\ queue.list[1].message_id = 2
    /\ queue.list[1].time_remaining < queue.list[2].time_remaining
    /\ Len(scheduled_messages) = 1
    /\ scheduled_messages[1].message_id = queue.list[2].message_id
    /\ scheduled_messages[1].destruct_at < now

\* C29: the cache scheduled_messages is accessed under mutual exclusion: no
\* request context mutates it (schedule_destruction, cancel_destruction) while
\* the scheduler loop is within an access of its own, between the membership
\* test of _destroy_message and the del that follows it.
C29_CacheMutualExclusion ==
    [][\A r \in Requests :
           At("scheduler", "destroy_del")
               => ~(Moves(r) /\ scheduled_messages' # scheduled_messages)]_vars

\* C30: the store is the system of record and the cache a copy of it: the
\* cache-driven check never destroys a message whose persisted destruct_at is
\* absent or still in the future, under any interleaving of
\* schedule_destruction and cancel_destruction and any failure of their writes
\* to the store.
C30_CacheDestroysOnlyPersistedDue ==
    [][\A id \in MsgIds :
           (/\ At("scheduler", "destroy_flag")
            /\ Moves("scheduler")
            /\ \/ messages'[id] # messages[id]
               \/ destroy_key_calls'[id] # destroy_key_calls[id])
               => \E d \in messages[id].destruct_at : d <= now]_vars

\* ---- receive_messages and the read flag

\* C31: is_read of a stored message becomes true only in the step of
\* receive_messages that has just decrypted that message; the step of a message
\* whose decrypt raises writes nothing to the store (is_read and is_deleted of
\* every message stay as they were), and the for loop goes on with the
\* remaining pending messages of the request
C31_ReadOnlyAfterDecrypt ==
    [][/\ \A id \in MsgIds :
              (Stored(messages, id) /\ Stored(messages', id)
               /\ ~messages[id].is_read /\ messages'[id].is_read)
              => \E r \in Requests :
                     /\ At(r, "receive") /\ Moves(r)
                     /\ Head(th[r].list).id = id
                     /\ WellFormed(Head(th[r].list).session_key)
       /\ \A r \in Requests :
              (At(r, "receive") /\ Moves(r)
               /\ ~WellFormed(Head(th[r].list).session_key))
              => /\ messages' = messages
                 /\ destroy_key_calls' = destroy_key_calls
                 /\ Tail(th[r].list) # <<>>
                    => /\ th'[r].pc = "receive"
                       /\ th'[r].list = Tail(th[r].list)]_vars

\* the first pending message of a request could not be decrypted and is still
\* unread and not deleted, and the request is at its second pending message
C31_Witness ==
    \E r \in Requests :
        /\ At(r, "receive")
        /\ Len(th[r].list) = 1
        /\ Head(th[r].list).id = 2
        /\ Pending(messages, 1, Recipient, now)
        /\ ~WellFormed(messages[1].session_key)
        /\ messages[1].timestamp <= messages[2].timestamp

\* ---- the audit trail of destructions

\* C32: between operations, every stored message flagged is_deleted has exactly
\* one destruction audit record in system_logs, whichever path flagged it
C32_OneAuditRecordPerDeleted ==
    AllQuiet => \A id \in MsgIds :
                    (Stored(messages, id) /\ messages[id].is_deleted)
                    => LogCount(system_logs, id) = 1

\* C33: between operations, the cache holds no entry for a stored message
\* flagged is_deleted
C33_NoCacheEntryForDeleted ==
    AllQuiet => \A id \in MsgIds :
                    (Stored(messages, id) /\ messages[id].is_deleted)
                    => ~CacheHas(scheduled_messages, id)

\* ---- the life of a cache entry

\* C34: while the loops run, a cache entry whose deadline has passed is
\* eventually removed from scheduled_messages, whether or not its message is in
\* the store
C34_DueEntryEventuallyRemoved ==
    \A id \in MsgIds :
        (running /\ id \in Range(DueIds(scheduled_messages, now)))
            ~> (~running \/ ~CacheHas(scheduled_messages, id))

\* ---- reads after the deadline

\* C37: no request returns to its recipient the plaintext of a stored message
\* that is not flagged deleted and whose persisted destruct_at has passed
C37_OverdueNeverReturned ==
    [][\A id \in MsgIds :
          (/\ Stored(messages, id) /\ ~messages[id].is_deleted
           /\ \E d \in messages[id].destruct_at : d < now)
          => opened'[id] = opened[id]]_vars

\* ---- the sweep of the session keys

\* the session-key documents that are not destroyed and expired before t
ExpiredKeyIds(t) ==
    {k \in KeyIds : /\ session_keys[k].st = "stored"
                    /\ ~session_keys[k].is_destroyed
                    /\ \E e \in session_keys[k].expires_at : e < t}

\* C38: a pass of _cleanup_expired_keys selects exactly the session-key
\* documents that are not destroyed and whose expires_at is before the time of
\* the pass, and writes nothing; each later step of the pass marks one selected
\* document destroyed (one that has an expiry, and it is before now) and leaves
\* every other session-key document and every message document as it was
C38_KeySweepExact ==
    [][/\ (At("cleanup", "loop") /\ Moves("cleanup"))
          => /\ session_keys' = session_keys
             /\ messages' = messages
             /\ IF ExpiredKeyIds(now) = {} THEN FALSE
                ELSE /\ th'["cleanup"].pc = "key_cleanup"
                     /\ Range(th'["cleanup"].list) = ExpiredKeyIds(now)
                     /\ Len(th'["cleanup"].list) = Cardinality(ExpiredKeyIds(now))
       /\ (At("cleanup", "key_cleanup") /\ Moves("cleanup"))
          => LET k == Head(th["cleanup"].list)
             IN  /\ session_keys'[k].is_destroyed
                 /\ session_keys'[k].destroyed_at = {th["cleanup"].n}
                 /\ \E e \in session_keys[k].expires_at : e < now
                 /\ \A j \in KeyIds \ {k} : session_keys'[j] = session_keys[j]
                 /\ messages' = messages]_vars

\* a pass that selected both session keys has marked the first one, with
\* messages in the store
C38_Witness ==
    /\ At("cleanup", "key_cleanup")
    /\ th["cleanup"].list = <<2>>
    /\ session_keys[1].is_destroyed
    /\ session_keys[1].destroyed_at = {th["cleanup"].n}
    /\ ~session_keys[2].is_destroyed
    /\ \E id \in MsgIds : Stored(messages, id)

\* ---- the threads of the scheduler

\* the threads created for `target` that are in the body of their loop
InBody(target) ==
    {i \in DOMAIN loop_threads :
        loop_threads[i].target = target /\ loop_threads[i].pc = "body"}

\* C35: at any time at most one thread is executing the scheduler loop and at
\* most one the cleanup loop
C35_AtMostOneLoopEach == \A target \in Background : Cardinality(InBody(target)) <= 1

\* C36: once running is false the threads created end, each at the next test of
\* its loop, unless start() sets running again; a thread that has ended stays
\* ended, and a body of a loop begins only while running is true
C36_LoopsExitAfterStop ==
    /\ ~running ~> (running \/ \A i \in DOMAIN loop_threads :
                                  loop_threads[i].pc = "exited")
    /\ [][\A i \in DOMAIN loop_threads :
             /\ loop_threads[i].pc = "exited" => loop_threads'[i].pc = "exited"
             /\ (loop_threads[i].pc # "body" /\ loop_threads'[i].pc = "body")
                => running]_vars

\* stop() after start(): both threads have ended
C36_Witness ==
    /\ ~running
    /\ Len(loop_threads) = 2
    /\ \A i \in DOMAIN loop_threads : loop_threads[i].pc = "exited"

\* ---- the capacity of a chat room

\* C39: no stored room has more members than its max_members
C39_RoomCapacity ==
    \A room \in 1..NumRooms :
        chat_rooms[room].st = "stored"
        => Cardinality(chat_rooms[room].members) <= chat_rooms[room].max_members

====
